---- MODULE Spec2Model ----
(***************************************************************************)
(* The session registry of src/session_server.py: the sessions dict, the   *)
(* BrowserSession objects, the teardown routine, the idle reaper and the   *)
(* tab list, as coroutines interleaved by the asyncio event loop.  Every   *)
(* action is the synchronous code one coroutine runs between two awaits.   *)
(***************************************************************************)
EXTENDS Integers, Sequences, FiniteSets, TLC

\* session_server.py:38 sets MAX_SESSIONS = 10.  The registry code is the same
\* for every capacity; the model runs it with a capacity of 2 (the capacity of
\* the specification's scenario A) so that the at-capacity cases are reached.
MAX_SESSIONS == 2
\* session_server.py:39 sets SESSION_TIMEOUT = 1800 seconds.  The model clock
\* counts periods of 1800 seconds, so the timeout is one period.
SESSION_TIMEOUT == 1

\* Bounds of the model.
NumIds == 3          \* distinct session ids the clients use
NumClients == 2      \* tool calls that can be in flight together
MaxTasks == 2        \* eviction tasks that can be running together
MaxObjs == 4         \* BrowserSession objects in memory together
MaxGen == 1          \* driver handles of each kind started per session object
MaxRelaunch == 2     \* the same, where a session's browser is opened again
MaxPages == 3        \* pages created per session object
MaxTime == 2         \* last value of the clock
MaxCalls == 4        \* tool calls the clients make in a run
MaxEvents == 2       \* events kept in each buffer of a session object

Ids == 1..NumIds
Clients == 1..NumClients
Tasks == (NumClients + 1)..(NumClients + MaxTasks)
Reaper == NumClients + MaxTasks + 1
Main == Reaper + 1
Procs == 1..Main
None == 0

VARIABLES
    sessions,   \* the dict `sessions`, in insertion order: <<[sid, obj], ...>>
    heap,       \* the BrowserSession objects in memory, by object number
    drv,        \* the automation driver's side: live handles and close calls
    queue,      \* tasks made by asyncio.create_task that have not started yet
    flow,       \* the coroutines: where each one is suspended, and its locals
    now,        \* datetime.now().timestamp()
    out,        \* what the last step sent out: the response of the tool call
                \* (or the exception of the task) that ended in it, if any
    calls,      \* number of tool calls the clients have made
    single      \* the single-tenant server (server.py) beside this one: its
                \* module globals, its tool calls in flight and the tool
                \* call that ended in the last step

vars == <<sessions, heap, drv, queue, flow, now, out, calls, single>>

Objs == 1..MaxObjs

----------------------------------------------------------------------------
(* BrowserSession and the sessions dict                                    *)

BrowserSession(sid, t) ==
    [session_id |-> sid, browser |-> None, context |-> None, pages |-> <<>>,
     current_page_index |-> 0, playwright_instance |-> None,
     console_messages |-> <<>>, network_requests |-> <<>>,
     created_at |-> t, last_activity |-> t]

\* a slot of the heap that holds no object
Blank ==
    [session_id |-> None, browser |-> None, context |-> None, pages |-> <<>>,
     current_page_index |-> 0, playwright_instance |-> None,
     console_messages |-> <<>>, network_requests |-> <<>>,
     created_at |-> -1, last_activity |-> -1]


Keys(S) == {S[i].sid : i \in 1..Len(S)}

PosOf(S, sid) == CHOOSE i \in 1..Len(S) : S[i].sid = sid

\* (mutant) every session id is served by the session object made first
ObjOfFirst(S, sid) == S[1].obj

\* sessions[session_id]
ObjOf(S, sid) == S[PosOf(S, sid)].obj

RemoveAt(s, i) == SubSeq(s, 1, i - 1) \o SubSeq(s, i + 1, Len(s))

\* del sessions[session_id]
DelKey(S, sid) == RemoveAt(S, PosOf(S, sid))

\* (mutant) a min that keeps the last of the smallest
RECURSIVE MinFromLast(_, _, _, _)
MinFromLast(S, H, i, best) ==
    IF i > Len(S) THEN best
    ELSE IF H[S[i].obj].last_activity <= H[S[best].obj].last_activity
         THEN MinFromLast(S, H, i + 1, i)
         ELSE MinFromLast(S, H, i + 1, best)

\* min(sessions.keys(), key=lambda sid: sessions[sid].last_activity): Python's
\* min walks the keys in dict order and keeps the first of the smallest.
RECURSIVE MinFrom(_, _, _, _)
MinFrom(S, H, i, best) ==
    IF i > Len(S) THEN best
    ELSE IF H[S[i].obj].last_activity < H[S[best].obj].last_activity
         THEN MinFrom(S, H, i + 1, i)
         ELSE MinFrom(S, H, i + 1, best)

OldestSession(S, H) == S[MinFrom(S, H, 2, 1)].sid

\* (mutant) get_session without its "if session_id not in sessions" test: a
\* session id that is in the dict gets a new BrowserSession in its place
get_session_fresh(R, sid, t) ==
    IF sid \in Keys(R.sessions) /\ R.free = {}
    THEN LET o == ObjOf(R.sessions, sid) IN
         [sessions |-> R.sessions,
          heap |-> [R.heap EXCEPT ![o].last_activity = t],
          queue |-> R.queue, obj |-> o, victim |-> None]
    ELSE LET known == sid \in Keys(R.sessions)
             full == Len(R.sessions) >= MAX_SESSIONS
             v == IF full THEN OldestSession(R.sessions, R.heap) ELSE None
             o == CHOOSE x \in R.free : \A y \in R.free : x <= y IN
         [sessions |-> IF known
                       THEN [R.sessions EXCEPT ![PosOf(R.sessions, sid)].obj = o]
                       ELSE Append(R.sessions, [sid |-> sid, obj |-> o]),
          heap |-> [R.heap EXCEPT ![o] = BrowserSession(sid, t)],
          queue |-> IF full THEN Append(R.queue, v) ELSE R.queue,
          obj |-> o, victim |-> v]

\* (mutant) get_session that sets last_activity only when it creates the
\* session: the assignment moved inside the "if session_id not in sessions"
get_session_untouched(R, sid, t) ==
    IF sid \in Keys(R.sessions)
    THEN [sessions |-> R.sessions, heap |-> R.heap, queue |-> R.queue,
          obj |-> ObjOf(R.sessions, sid), victim |-> None]
    ELSE LET full == Len(R.sessions) >= MAX_SESSIONS
             v == IF full THEN OldestSession(R.sessions, R.heap) ELSE None
             o == CHOOSE x \in R.free : \A y \in R.free : x <= y IN
         [sessions |-> Append(R.sessions, [sid |-> sid, obj |-> o]),
          heap |-> [R.heap EXCEPT ![o] = BrowserSession(sid, t)],
          queue |-> IF full THEN Append(R.queue, v) ELSE R.queue,
          obj |-> o, victim |-> v]

\* (mutant) get_session with the capacity test outside the "if session_id not
\* in sessions": at capacity it schedules the eviction of the least recently
\* active session for a session id that is in the dict too
get_session_evicting(R, sid, t) ==
    LET full == Len(R.sessions) >= MAX_SESSIONS
        v == IF full THEN OldestSession(R.sessions, R.heap) ELSE None
        Q == IF full THEN Append(R.queue, v) ELSE R.queue IN
    IF sid \in Keys(R.sessions)
    THEN LET o == ObjOf(R.sessions, sid) IN
         [sessions |-> R.sessions,
          heap |-> [R.heap EXCEPT ![o].last_activity = t],
          queue |-> Q, obj |-> o, victim |-> v]
    ELSE LET o == CHOOSE x \in R.free : \A y \in R.free : x <= y IN
         [sessions |-> Append(R.sessions, [sid |-> sid, obj |-> o]),
          heap |-> [R.heap EXCEPT ![o] = BrowserSession(sid, t)],
          queue |-> Q, obj |-> o, victim |-> v]

\* get_session on the registry R = [sessions, heap, queue] at time t; the
\* result carries the object returned and the victim scheduled (None if none).
get_session(R, sid, t) ==
    IF sid \in Keys(R.sessions)
    THEN LET o == ObjOf(R.sessions, sid) IN
         [sessions |-> R.sessions,
          heap |-> [R.heap EXCEPT ![o].last_activity = t],
          queue |-> R.queue, obj |-> o, victim |-> None]
    ELSE LET full == Len(R.sessions) >= MAX_SESSIONS
             v == IF full THEN OldestSession(R.sessions, R.heap) ELSE None
             o == CHOOSE x \in R.free : \A y \in R.free : x <= y IN
         [sessions |-> Append(R.sessions, [sid |-> sid, obj |-> o]),
          heap |-> [R.heap EXCEPT ![o] = BrowserSession(sid, t)],
          queue |-> IF full THEN Append(R.queue, v) ELSE R.queue,
          obj |-> o, victim |-> v]


----------------------------------------------------------------------------
(* The automation driver.  A handle is a number; each session object has   *)
(* its own playwright instances, browsers and contexts.                    *)

Gens == 1..MaxRelaunch

\* npw, nbr, nctx, npages number the handles: a driver call that makes one
\* takes the next number when it is issued.
DrvInit ==
    [npw |-> 0, nbr |-> 0, nctx |-> 0, npages |-> 0,
     pwLive |-> {}, brLive |-> {}, ctxLive |-> {},
     pwCalls |-> [g \in Gens |-> 0],     \* stop() calls per playwright instance
     brCalls |-> [g \in Gens |-> 0],     \* close() calls per browser
     ctxCalls |-> [g \in Gens |-> 0],    \* close() calls per context
     brPw |-> [g \in Gens |-> None],     \* the instance that launched a browser
     ctxBr |-> [g \in Gens |-> None],    \* the browser a context belongs to
     disc |-> {},                        \* browsers whose "disconnected" event
                                         \* is emitted and not yet delivered
     pgCtx |-> [g \in 1..MaxPages |-> None],  \* the context that made a page
     pgOpen |-> {},                      \* pages made and not closed
     nav |-> {},                         \* pages that were told to load a URL
     lst |-> {},                         \* listeners: <<page, session object>>
     dlg |-> {}]                         \* pages with a one-shot "dialog"
                                         \* handler registered and not yet run

Bump(n) == IF n < 2 THEN n + 1 ELSE 2

\* What the driver does when browsers bs go away: their contexts go with them
\* and each browser that was running emits "disconnected".
BrowsersGone(d, bs) ==
    [d EXCEPT !.brLive = @ \ bs,
              !.ctxLive = {c \in @ : d.ctxBr[c] \notin bs},
              !.disc = @ \cup (bs \cap d.brLive)]

ContextClosed(d, c) == [d EXCEPT !.ctxLive = @ \ {c}]

BrowserClosed(d, b) == BrowsersGone(d, {b})

PlaywrightStopped(d, p) ==
    [BrowsersGone(d, {b \in d.brLive : d.brPw[b] = p}) EXCEPT !.pwLive = @ \ {p}]

\* context c made page pg
PageMade(d, c, pg) == [d EXCEPT !.pgCtx[pg] = c, !.pgOpen = @ \cup {pg}]

\* page.close() came back
PageClosed(d, pg) == [d EXCEPT !.pgOpen = @ \ {pg}]

\* page.goto(url) was issued on the page
PageToldToLoad(d, pg) == [d EXCEPT !.nav = @ \cup {pg}]

\* a page is up while it is not closed and its context is
PageUp(d, pg) == pg \in d.pgOpen /\ d.pgCtx[pg] \in d.ctxLive

\* (mutant) the listeners append to one buffer shared by all sessions: the
\* buffers of the session object made first
setup_page_listeners_shared(d, page, session) ==
    [d EXCEPT !.lst = @ \cup {<<page, IF sessions = <<>> THEN session
                                      ELSE sessions[1].obj>>}]

\* _setup_page_listeners(page, session): the two lambdas registered on the
\* page append to the buffers of the session object they were given
setup_page_listeners(d, page, session) ==
    [d EXCEPT !.lst = @ \cup {<<page, session>>}]

----------------------------------------------------------------------------
(* cleanup_session, cut at its awaits.  X = [sessions, drv] is the state   *)
(* it works on; the result adds where the coroutine is afterwards (pc =    *)
(* "done": it returned, or raised the exception in exc), whether it        *)
(* printed its "Error cleaning up session" line and whether it found the   *)
(* session id in the dict.                                                 *)

CsOut(X, pc, o, h, exc, printed) ==
    [sessions |-> X.sessions, drv |-> X.drv, pc |-> pc, obj |-> o, h |-> h,
     exc |-> exc, printed |-> printed, found |-> TRUE]

\* finally: del sessions[session_id]
CsFinally(X, sid, printed) ==
    IF sid \in Keys(X.sessions)
    THEN CsOut([X EXCEPT !.sessions = DelKey(X.sessions, sid)],
               "done", None, None, "none", printed)
    ELSE CsOut(X, "done", None, None, "KeyError", printed)

\* (mutant) the except clause raises the failure again instead of printing it
CsExceptRaises(X, sid) ==
    [CsFinally(X, sid, FALSE) EXCEPT !.exc = "DriverError"]

\* except Exception as e: print(...); then the finally block
CsExcept(X, sid) == CsFinally(X, sid, TRUE)

\* (mutant) cleanup_session without its "if session_id in sessions" test
CsEnterAlways(X, H, sid) ==
    IF sid \notin Keys(X.sessions)
    THEN [CsFinally(X, sid, FALSE) EXCEPT !.found = FALSE]
    ELSE LET o == ObjOf(X.sessions, sid)
             s == H[o] IN
         IF s.browser = None THEN CsFinally(X, sid, FALSE)
         ELSE IF s.context = None THEN CsExcept(X, sid)
         ELSE CsOut([X EXCEPT !.drv[o].ctxCalls[s.context] = Bump(@)],
                    "cs_ctx", o, s.context, "none", FALSE)

\* from the top to the first await
CsEnter(X, H, sid) ==
    IF sid \notin Keys(X.sessions)
    THEN [CsOut(X, "done", None, None, "none", FALSE) EXCEPT !.found = FALSE]
    ELSE LET o == ObjOf(X.sessions, sid)
             s == H[o] IN
         IF s.browser = None THEN CsFinally(X, sid, FALSE)
         ELSE IF s.context = None THEN CsExcept(X, sid)   \* None.close()
         ELSE CsOut([X EXCEPT !.drv[o].ctxCalls[s.context] = Bump(@)],
                    "cs_ctx", o, s.context, "none", FALSE)

\* await session.context.close() came back
CsAfterContext(X, H, sid, o, c, ok) ==
    IF ~ok THEN CsExcept(X, sid)
    ELSE LET X1 == [X EXCEPT !.drv[o] = ContextClosed(@, c)]
             b == H[o].browser IN
         IF b = None THEN CsExcept(X1, sid)               \* None.close()
         ELSE CsOut([X1 EXCEPT !.drv[o].brCalls[b] = Bump(@)],
                    "cs_br", o, b, "none", FALSE)

\* await session.browser.close() came back
CsAfterBrowser(X, H, sid, o, b, ok) ==
    IF ~ok THEN CsExcept(X, sid)
    ELSE LET X1 == [X EXCEPT !.drv[o] = BrowserClosed(@, b)]
             p == H[o].playwright_instance IN
         IF p = None THEN CsFinally(X1, sid, FALSE)
         ELSE CsOut([X1 EXCEPT !.drv[o].pwCalls[p] = Bump(@)],
                    "cs_pw", o, p, "none", FALSE)

\* await session.playwright_instance.stop() came back
CsAfterStop(X, H, sid, o, p, ok) ==
    IF ~ok THEN CsExcept(X, sid)
    ELSE CsFinally([X EXCEPT !.drv[o] = PlaywrightStopped(@, p)], sid, FALSE)

CsPcs == {"cs_ctx", "cs_br", "cs_pw"}

CsResume(X, H, f, ok) ==
    CASE f.pc = "cs_ctx" -> CsAfterContext(X, H, f.sid, f.obj, f.h, ok)
      [] f.pc = "cs_br" -> CsAfterBrowser(X, H, f.sid, f.obj, f.h, ok)
      [] f.pc = "cs_pw" -> CsAfterStop(X, H, f.sid, f.obj, f.h, ok)

Cur == [sessions |-> sessions, drv |-> drv]

\* heap slots that hold no object and no record of the driver
FreeSlots == {o \in Objs : heap[o] = Blank /\ drv[o] = DrvInit}

Reg == [sessions |-> sessions, heap |-> heap, queue |-> queue,
        free |-> FreeSlots]

\* The bounds let get_session run: a heap slot and a task are left if needed.
CanResolve(sid) ==
    \/ sid \in Keys(sessions)
    \/ /\ FreeSlots # {}
       /\ Len(sessions) >= MAX_SESSIONS => Len(queue) < MaxTasks

----------------------------------------------------------------------------
(* The coroutines.  A suspended coroutine keeps its locals: the session id *)
(* and session object it works on, the tab index, the handle (h) its       *)
(* pending driver call was made on and the handle or page (pg) that call   *)
(* is making or acting on.                                                 *)

Idle ==
    [op |-> "none", pc |-> "idle", sid |-> None, obj |-> None, index |-> 0,
     h |-> None, pg |-> None, todo |-> <<>>, result |-> "none",
     raised |-> "none", failed |-> FALSE, printed |-> FALSE, found |-> FALSE,
     report |-> <<>>, own |-> FALSE]

Call(op, sid) == [Idle EXCEPT !.op = op, !.sid = sid]

\* The call returned res or raised exc: pc = "done" marks a coroutine that
\* ended in this step (Commit sends its outcome out and frees its slot).
Done(f, res, exc) ==
    [Idle EXCEPT !.op = f.op, !.pc = "done", !.sid = f.sid, !.index = f.index,
                 !.result = res, !.raised = exc, !.failed = f.failed,
                 !.printed = f.printed, !.found = f.found]

Suspend(f, pc, o, h, pg) == [f EXCEPT !.pc = pc, !.obj = o, !.h = h, !.pg = pg]

\* The pages variable is assigned a new list.  The for loop of browser_tabs
\* list iterates the list object it started on: the loops of the coroutines
\* in which that run on the list assigned until now keep it (own), its
\* elements in todo.
Rebound(F, which, pages) ==
    [q \in DOMAIN F |->
        IF q \in which /\ F[q].pc = "tl_title" /\ ~F[q].own
        THEN [F[q] EXCEPT !.own = TRUE, !.todo = pages]
        ELSE F[q]]

\* The code can reach an object while the dict, a coroutine or the
\* "disconnected" closure of one of its browsers refers to it; Python frees it
\* after that.  Of the driver's record of a freed object the playwright
\* instances that still run are kept: nothing refers to them any more.  (Its
\* browsers and contexts are gone: a running browser holds the closure.)
Reachable(o, S, D, F) ==
    \/ \E i \in 1..Len(S) : S[i].obj = o
    \/ \E p \in Procs : F[p].obj = o
    \/ D[o].brLive # {} \/ D[o].disc # {}

NoOut == [Idle EXCEPT !.pc = "none"]

\* a tool call of server.py: idle, or suspended at pc with its locals (the
\* tab index, the handle h its launch makes, the page pg its pending driver
\* call makes or acts on, the tabs_info list built so far)
ServerIdle ==
    [op |-> "none", pc |-> "idle", index |-> 0, h |-> None, pg |-> None,
     report |-> <<>>, own |-> FALSE, todo |-> <<>>]

\* server.py at import: the module globals browser, context, pages,
\* current_page_index and playwright_instance.  Beside them: the launches
\* and the pages its driver has numbered, the browsers that run (brLive) and
\* those whose "disconnected" event is emitted and not yet delivered (disc),
\* its tool calls in flight (co), the tool call that ended in the last step
\* (out), and seq: no two tool calls have been in flight together so far.
Globals ==
    [browser |-> None, context |-> None, pages |-> <<>>,
     current_page_index |-> 0, playwright_instance |-> None,
     launched |-> 0, made |-> 0, brLive |-> {}, disc |-> {},
     co |-> [p \in Clients |-> ServerIdle], out |-> [pc |-> "none", op |-> "none", result |-> <<>>,
             raised |-> "none"],
     seq |-> TRUE]

\* session_cleanup_task inside asyncio.sleep(300)
Sleeping == [Idle EXCEPT !.pc = "sleep"]

\* The end of a step: the new values of the variables.  A coroutine that
\* ended in the step (pc = "done"), and the reaper when it came to the end of
\* a sweep in the step (pc = "swept"), are sent out.  G is what the step leaves
\* of the single-tenant server that runs beside this one.
CommitBeside(S, H, D, Q, F, G) ==
    LET fin == {p \in Procs : F[p].pc \in {"done", "swept"}} IN
    /\ sessions' = S
    /\ heap' = [o \in Objs |-> IF Reachable(o, S, D, F) THEN H[o] ELSE Blank]
    /\ drv' = [o \in Objs |->
                 IF Reachable(o, S, D, F) THEN D[o]
                 ELSE [DrvInit EXCEPT !.pwLive = D[o].pwLive]]
    /\ queue' = Q
    /\ flow' = [p \in Procs |-> IF p \notin fin THEN F[p]
                                ELSE IF p = Reaper THEN Sleeping ELSE Idle]
    /\ out' = IF fin = {} THEN NoOut ELSE F[CHOOSE p \in fin : TRUE]
    /\ calls' = IF \E p \in Clients : flow[p].pc = "idle" /\ F[p].pc # "idle"
                THEN calls + 1 ELSE calls
    /\ single' = G

\* a step of this server alone
Commit(S, H, D, Q, F) == CommitBeside(S, H, D, Q, F, single)

Init ==
    /\ sessions = <<>>
    /\ heap = [o \in Objs |-> Blank]
    /\ drv = [o \in Objs |-> DrvInit]
    /\ queue = <<>>
    /\ flow = [p \in Procs |-> IF p = Reaper THEN Sleeping ELSE Idle]
    /\ now = 0
    /\ out = NoOut
    /\ calls = 0
    /\ single = Globals

\* the clock advances
Tick ==
    /\ now < MaxTime
    /\ now' = now + 1
    /\ out' = NoOut
    /\ UNCHANGED <<sessions, heap, drv, queue, flow, calls, single>>

\* a coroutine slot is free for the next call or task
Free(f) == f.pc = "idle"

\* (mutant) the server takes one tool call at a time: a call starts only
\* when no other call is in flight
MayCallOneAtATime(p) ==
    p \in Clients /\ (\A q \in Clients : Free(flow[q])) /\ calls < MaxCalls

\* a client may make a call
MayCall(p) == p \in Clients /\ Free(flow[p]) /\ calls < MaxCalls

\* browser_network_requests: resolve the session and read its buffer
BrowserNetworkRequests(p, sid) ==
    /\ MayCall(p) /\ CanResolve(sid)
    /\ LET r == get_session(Reg, sid, now) IN
        Commit(r.sessions, r.heap, drv, r.queue,
               [flow EXCEPT ![p] = Done(Call("network_requests", sid),
                                        "ok", "none")])
    /\ UNCHANGED now

\* datetime.fromtimestamp(t).isoformat(): the text of the time t, here the
\* pair of the tag "iso" and the clock value the text spells out
isoformat(t) == <<"iso", t>>

\* (mutant) the idle time is counted from the creation of the session
SummarySinceCreation(sid, s, t) ==
    [session_id |-> sid, browser_open |-> s.browser # None,
     num_pages |-> Len(s.pages), created_at |-> isoformat(s.created_at),
     last_activity |-> isoformat(s.last_activity),
     inactive_seconds |-> t - s.created_at]

\* the dict session_list appends for one item of sessions.items(); the idle
\* time int(current_time - session.last_activity) is in periods of the clock
Summary(sid, s, t) ==
    [session_id |-> sid, browser_open |-> s.browser # None,
     num_pages |-> Len(s.pages), created_at |-> isoformat(s.created_at),
     last_activity |-> isoformat(s.last_activity),
     inactive_seconds |-> t - s.last_activity]

\* the loop of session_list over sessions.items(), in dict order
RECURSIVE Summaries(_, _, _, _)
Summaries(S, H, t, i) ==
    IF i > Len(S) THEN <<>>
    ELSE <<Summary(S[i].sid, H[S[i].obj], t)>> \o Summaries(S, H, t, i + 1)

\* session_list: no await, no call of get_session
SessionList(p) ==
    /\ MayCall(p)
    /\ Commit(sessions, heap, drv, queue,
              [flow EXCEPT ![p] =
                   IF sessions = <<>>
                   THEN Done(Call("session_list", None), "no_sessions", "none")
                   ELSE [Done(Call("session_list", None), "listed", "none")
                            EXCEPT !.report = Summaries(sessions, heap, now, 1)]])
    /\ UNCHANGED now

----------------------------------------------------------------------------
(* Teardown: browser_close, the eviction tasks and the idle reaper         *)

\* main: the server serves until mcp.run() returns; then the finally block
\* cancels the reaper and runs its loop over list(sessions.keys())
Serving == flow[Main].pc = "idle"

\* the shutdown loop is over: it came to the end of its list (pc = "stopped")
\* or a cleanup_session raised out of it (pc = "dead"); the event
\* loop finishes its turn and asyncio.run cancels the tasks that are left
ShutdownOver == flow[Main].pc \in {"stopped", "dead"}

\* asyncio.run has stopped the loop and cancelled the tasks that were left:
\* no eviction task waits to be started, and each one that is inside
\* cleanup_session gets CancelledError when it is run next
LoopStopped ==
    /\ ShutdownOver /\ queue = <<>>
    /\ \A q \in Tasks :
          flow[q].pc \in CsPcs => flow[q].raised = "CancelledError"

\* where a coroutine that runs cleanup_session is after a step r of it; a
\* driver call that came back raised (ok = FALSE) is remembered in failed.
\* A step taken when main has ended is one of the loop's last turn: the
\* driver call it suspends in cannot come back before asyncio.run cancels
\* the task.
AfterCleanup(f, r, ok) ==
    LET g == [f EXCEPT !.failed = @ \/ ~ok, !.printed = @ \/ r.printed,
                       !.found = r.found] IN
    IF r.pc = "done"
    THEN Done(g, IF r.exc = "none" THEN "closed" ELSE "none", r.exc)
    ELSE [Suspend(g, r.pc, r.obj, r.h, None) EXCEPT
              !.raised = IF ShutdownOver THEN "CancelledError" ELSE @]

\* browser_close up to its first await
BrowserClose(p, sid) ==
    /\ MayCall(p)
    /\ LET r == CsEnter(Cur, heap, sid) IN
        Commit(r.sessions, heap, r.drv, queue,
               [flow EXCEPT ![p] = AfterCleanup(Call("close", sid), r, TRUE)])
    /\ UNCHANGED now

\* the event loop starts the oldest task made by asyncio.create_task
TaskStart(p) ==
    /\ p \in Tasks /\ Free(flow[p]) /\ queue # <<>>
    /\ \A q \in Tasks : Free(flow[q]) => p <= q
    /\ LET r == CsEnter(Cur, heap, Head(queue)) IN
        Commit(r.sessions, heap, r.drv, Tail(queue),
               [flow EXCEPT ![p] =
                    AfterCleanup(Call("evict", Head(queue)), r, TRUE)])
    /\ UNCHANGED now

\* a close call of the driver made by cleanup_session came back
CleanupResume(p, ok) ==
    /\ p \in Clients \cup Tasks
    /\ flow[p].pc \in CsPcs /\ flow[p].raised = "none"
    /\ LET r == CsResume(Cur, heap, flow[p], ok) IN
        Commit(r.sessions, heap, r.drv, queue,
               [flow EXCEPT ![p] = AfterCleanup(flow[p], r, ok)])
    /\ UNCHANGED now

\* the ids the reaper's list comprehension collects, in dict order
RECURSIVE InactiveFrom(_, _, _, _)
InactiveFrom(S, H, t, i) ==
    IF i > Len(S) THEN <<>>
    ELSE (IF t - H[S[i].obj].last_activity > SESSION_TIMEOUT
          THEN <<S[i].sid>> ELSE <<>>) \o InactiveFrom(S, H, t, i + 1)

\* for session_id in inactive_sessions: await cleanup_session(session_id),
\* run from a finished step r of cleanup_session until a cleanup suspends,
\* the list ends (back to asyncio.sleep) or a cleanup raises (the task dies)
RECURSIVE ReapLoop(_, _, _, _)
ReapLoop(r, H, f, ok) ==
    LET g == [f EXCEPT !.failed = @ \/ ~ok, !.printed = @ \/ r.printed]
        X == [sessions |-> r.sessions, drv |-> r.drv] IN
    IF r.pc # "done" THEN [X |-> X, f |-> Suspend(g, r.pc, r.obj, r.h, None)]
    ELSE IF r.exc # "none"
    THEN [X |-> X, f |-> [g EXCEPT !.pc = "dead", !.raised = r.exc,
                                   !.obj = None, !.h = None]]
    ELSE IF g.todo = <<>>
    THEN [X |-> X, f |-> [Idle EXCEPT !.pc = "swept", !.op = "reap",
                                      !.failed = g.failed,
                                      !.printed = g.printed]]
    ELSE ReapLoop(CsEnter(X, H, Head(g.todo)), H,
                  [g EXCEPT !.sid = Head(g.todo), !.todo = Tail(g.todo),
                            !.obj = None, !.h = None], TRUE)

\* session_cleanup_task wakes from asyncio.sleep(300) and sweeps
ReaperSweep ==
    /\ flow[Reaper].pc = "sleep"
    /\ LET todo == InactiveFrom(sessions, heap, now, 1)
           l == ReapLoop(CsEnter(Cur, heap, Head(todo)), heap,
                         [Call("reap", Head(todo)) EXCEPT !.todo = Tail(todo)],
                         TRUE) IN
        /\ todo # <<>>
        /\ Commit(l.X.sessions, heap, l.X.drv, queue,
                  [flow EXCEPT ![Reaper] = l.f])
    /\ UNCHANGED now

\* a close call made by the reaper's cleanup_session came back
ReaperResume(ok) ==
    /\ flow[Reaper].pc \in CsPcs /\ flow[Reaper].raised = "none"
    /\ LET l == ReapLoop(CsResume(Cur, heap, flow[Reaper], ok), heap,
                         flow[Reaper], ok) IN
        Commit(l.X.sessions, heap, l.X.drv, queue,
               [flow EXCEPT ![Reaper] = l.f])
    /\ UNCHANGED now

----------------------------------------------------------------------------
(* browser_open and _initialize_browser                                    *)

IbPcs == {"ib_start", "ib_launch", "ib_ctx", "ib_page", "ib_s1", "ib_s2"}

\* handle_browser_close, the "disconnected" callback of the session's browsers
handle_browser_close(s) ==
    [s EXCEPT !.browser = None, !.context = None, !.pages = <<>>,
              !.playwright_instance = None, !.console_messages = <<>>,
              !.network_requests = <<>>, !.current_page_index = 0]

\* (mutant) the current page is the first tab whenever there is one
get_current_page_first(s) == IF s.pages # <<>> THEN s.pages[1] ELSE None

get_current_page(s) ==
    IF s.pages # <<>> /\ 0 <= s.current_page_index
                      /\ s.current_page_index < Len(s.pages)
    THEN s.pages[s.current_page_index + 1] ELSE None

\* The handle a pending driver call was made on is still running.  A call on
\* a handle that is gone can only raise.
HandleLive(f) ==
    CASE f.pc = "ib_start" -> TRUE
      [] f.pc = "ib_launch" -> f.h \in drv[f.obj].pwLive
      [] f.pc = "ib_ctx" -> f.h \in drv[f.obj].brLive
      [] OTHER -> f.h \in drv[f.obj].ctxLive

\* browser_open up to its first await; browser_navigate and browser_tabs
\* create run the same code when they find the browser closed (op says who)
\* n bounds the launches on one session object
OpenEnterWithin(p, op, sid, n, G) ==
    LET r == get_session(Reg, sid, now)
        s == r.heap[r.obj] IN
    /\ s.browser = None
    /\ drv[r.obj].npw < n
    /\ CommitBeside(r.sessions, r.heap, [drv EXCEPT ![r.obj].npw = @ + 1], r.queue,
              [flow EXCEPT ![p] =
                   Suspend(Call(op, sid), "ib_start", r.obj, None,
                           drv[r.obj].npw + 1)], G)

\* browser_open up to its return or first await, with at most n launches on
\* one session object
BrowserOpenWithin(p, sid, n, G) ==
    /\ MayCall(p) /\ CanResolve(sid)
    /\ LET r == get_session(Reg, sid, now) IN
        \/ /\ r.heap[r.obj].browser # None
           /\ CommitBeside(r.sessions, r.heap, drv, r.queue,
                     [flow EXCEPT ![p] =
                          Done(Call("open", sid), "already_open", "none")], G)
        \/ OpenEnterWithin(p, "open", sid, n, G)
    /\ UNCHANGED now

BrowserOpen(p, sid) == BrowserOpenWithin(p, sid, MaxGen, single)

\* a driver call raised inside a tool: the exception leaves the tool
Raise(p, exc, G) ==
    CommitBeside(sessions, heap, drv, queue,
           [flow EXCEPT ![p] = Done([flow[p] EXCEPT !.failed = TRUE],
                                    "none", exc)], G)

\* session.context.new_page() of browser_tabs create, on the session object o
\* that get_session returned in registry r
CreateIssue(p, f, r, G) ==
    LET o == r.obj
        s == r.heap[o] IN
    IF s.context = None
    THEN CommitBeside(r.sessions, r.heap, drv, r.queue,
                [flow EXCEPT ![p] = Done(f, "none", "AttributeError")], G)
    ELSE /\ drv[o].npages < MaxPages
         /\ CommitBeside(r.sessions, r.heap,
                   [drv EXCEPT ![o].npages = @ + 1], r.queue,
                   [flow EXCEPT ![p] =
                        Suspend(f, "tc_page", o, s.context, drv[o].npages + 1)], G)

\* page = get_current_page(session); await page.goto(url) of browser_navigate
NavIssue(p, f, r, G) ==
    LET page == get_current_page(r.heap[r.obj]) IN
    CommitBeside(r.sessions, r.heap,
           IF page = None THEN drv
           ELSE [drv EXCEPT ![r.obj] = PageToldToLoad(@, page)],
           r.queue,
           [flow EXCEPT ![p] =
                IF page = None THEN Done(f, "none", "AttributeError")
                ELSE Suspend(f, "nav_goto", r.obj, None, page)], G)

\* _initialize_browser returned to the tool that called it
AfterInit(p, G) ==
    LET f == flow[p] IN
    CASE f.op = "open" ->
           CommitBeside(sessions, heap, drv, queue,
                  [flow EXCEPT ![p] = Done(f, "opened", "none")], G)
      [] f.op = "navigate" ->
           /\ CanResolve(f.sid)
           /\ NavIssue(p, f, get_session(Reg, f.sid, now), G)
      [] f.op = "tabs_create" ->
           /\ CanResolve(f.sid)
           /\ CreateIssue(p, f, get_session(Reg, f.sid, now), G)

\* a driver call made by _initialize_browser came back
InitResume(p, ok, G) ==
    /\ p \in Clients /\ flow[p].pc \in IbPcs
    /\ ok => HandleLive(flow[p])
    /\ LET f == flow[p]
           o == f.obj
           d == drv[o] IN
        IF ~ok THEN Raise(p, "DriverError", G)
        ELSE CASE f.pc = "ib_start" ->
                    CommitBeside(sessions,
                           [heap EXCEPT ![o].playwright_instance = f.pg],
                           [drv EXCEPT ![o].pwLive = @ \cup {f.pg},
                                       ![o].nbr = @ + 1],
                           queue,
                           [flow EXCEPT ![p] =
                                Suspend(f, "ib_launch", o, f.pg, d.nbr + 1)], G)
               [] f.pc = "ib_launch" ->
                    CommitBeside(sessions,
                           [heap EXCEPT ![o].browser = f.pg],
                           [drv EXCEPT ![o].brLive = @ \cup {f.pg},
                                       ![o].brPw[f.pg] = f.h,
                                       ![o].nctx = @ + 1],
                           queue,
                           [flow EXCEPT ![p] =
                                Suspend(f, "ib_ctx", o, f.pg, d.nctx + 1)], G)
               [] f.pc = "ib_ctx" ->
                    CommitBeside(sessions,
                           [heap EXCEPT ![o].context = f.pg],
                           [drv EXCEPT ![o].ctxLive = @ \cup {f.pg},
                                       ![o].ctxBr[f.pg] = f.h,
                                       ![o].npages = @ + 1],
                           queue,
                           [flow EXCEPT ![p] =
                                Suspend(f, "ib_page", o, f.pg, d.npages + 1)], G)
               [] f.pc = "ib_page" ->
                    CommitBeside(sessions,
                           [heap EXCEPT ![o].pages = <<f.pg>>,
                                        ![o].current_page_index = 0,
                                        ![o].console_messages = <<>>,
                                        ![o].network_requests = <<>>],
                           [drv EXCEPT ![o] =
                                setup_page_listeners(PageMade(@, f.h, f.pg),
                                                     f.pg, o)],
                           queue,
                           Rebound([flow EXCEPT ![p] = [f EXCEPT !.pc = "ib_s1"]],
                                   {q \in Procs : flow[q].obj = o},
                                   heap[o].pages), G)
               [] f.pc = "ib_s1" ->
                    CommitBeside(sessions, heap, drv, queue,
                           [flow EXCEPT ![p] = [f EXCEPT !.pc = "ib_s2"]], G)
               [] f.pc = "ib_s2" -> AfterInit(p, G)
    /\ UNCHANGED now

\* the browser b of session object o goes away: it crashed, its window was
\* closed, or a close() that has not returned yet has shut it down
BrowserCrash(o, b) ==
    /\ b \in drv[o].brLive
    /\ Commit(sessions, heap, [drv EXCEPT ![o] = BrowsersGone(@, {b})],
              queue, flow)
    /\ UNCHANGED now

\* the event loop delivers "disconnected" of browser b to the callback
HandleBrowserClose(o, b) ==
    /\ b \in drv[o].disc
    /\ Commit(sessions, [heap EXCEPT ![o] = handle_browser_close(@)],
              [drv EXCEPT ![o].disc = @ \ {b}], queue,
              Rebound(flow, {q \in Procs : flow[q].obj = o}, heap[o].pages))
    /\ UNCHANGED now

\* The lambdas of _setup_page_listeners: a page that is up and was told to
\* load a URL emits a "console" or a "request" event, and every listener
\* registered on the page appends an entry to its session object's buffer.
\* An entry records the session object and the page the event came from,
\* and of a console message of type "error" (kind = "error") its type.
Heard(H, o, pg, kind) ==
    [t \in Objs |->
        IF <<pg, t>> \in drv[o].lst
        THEN CASE kind = "console" ->
                    [H[t] EXCEPT !.console_messages = Append(@, <<o, pg>>)]
               [] kind = "error" ->
                    [H[t] EXCEPT !.console_messages =
                                     Append(@, <<o, pg, "error">>)]
               [] OTHER ->
                    [H[t] EXCEPT !.network_requests = Append(@, <<o, pg>>)]
        ELSE H[t]]

PageEvent(o, pg, kind) ==
    /\ PageUp(drv[o], pg) /\ pg \in drv[o].nav
    /\ \E t \in Objs : <<pg, t>> \in drv[o].lst
    /\ \A t \in Objs : <<pg, t>> \in drv[o].lst =>
           /\ Len(heap[t].console_messages) < MaxEvents
           /\ Len(heap[t].network_requests) < MaxEvents
    /\ Commit(sessions, Heard(heap, o, pg, kind), drv, queue, flow)
    /\ UNCHANGED now

----------------------------------------------------------------------------
(* browser_tabs and browser_navigate                                       *)

\* index arguments the clients pass: <<FALSE, 0>> is index=None
IndexArgs == {<<FALSE, 0>>} \cup {<<TRUE, i>> : i \in (0 - 1)..MaxPages}

\* (mutant) pop without the clamp of the cursor
PopPageNoClamp(s, index) == [s EXCEPT !.pages = RemoveAt(@, index + 1)]

\* (mutant) after a pop the cursor goes back to the first tab
PopPageToFirst(s, index) ==
    [s EXCEPT !.pages = RemoveAt(@, index + 1), !.current_page_index = 0]

\* (mutant) a pop that empties the tab list gives up the browser and the
\* context of the session
PopPageClosesLast(s, index) ==
    LET pages == RemoveAt(s.pages, index + 1) IN
    IF pages = <<>>
    THEN [s EXCEPT !.pages = pages, !.current_page_index = 0,
                   !.browser = None, !.context = None]
    ELSE [s EXCEPT !.pages = pages,
                   !.current_page_index =
                       IF @ >= Len(pages) THEN Len(pages) - 1 ELSE @]

\* session.pages.pop(index) and the clamp of current_page_index after it

PopPage(s, index) ==
    LET pages == RemoveAt(s.pages, index + 1) IN
    [s EXCEPT !.pages = pages,
              !.current_page_index =
                  IF @ >= Len(pages)
                  THEN (IF Len(pages) - 1 > 0 THEN Len(pages) - 1 ELSE 0)
                  ELSE @]

\* browser_tabs(action="create") up to its first await
TabsCreate(p, sid, n, G) ==
    /\ MayCall(p) /\ CanResolve(sid)
    /\ LET r == get_session(Reg, sid, now) IN
        \/ OpenEnterWithin(p, "tabs_create", sid, n, G)
        \/ /\ r.heap[r.obj].browser # None
           /\ CreateIssue(p, Call("tabs_create", sid), r, G)
    /\ UNCHANGED now

\* (mutant) the new page is appended and the cursor stays where it was
AppendPageKeepCursor(s, pg) == [s EXCEPT !.pages = Append(@, pg)]

\* session.pages.append(new_page);
\* session.current_page_index = len(session.pages) - 1
AppendPage(s, pg) ==
    LET pages == Append(s.pages, pg) IN
    [s EXCEPT !.pages = pages, !.current_page_index = Len(pages) - 1]

\* await session.context.new_page() of browser_tabs create came back
CreateResume(p, ok, G) ==
    /\ p \in Clients /\ flow[p].pc = "tc_page"
    /\ ok => HandleLive(flow[p])
    /\ LET f == flow[p]
           o == f.obj IN
        IF ~ok THEN Raise(p, "DriverError", G)
        ELSE CommitBeside(sessions,
                    [heap EXCEPT ![o] = AppendPage(@, f.pg)],
                    [drv EXCEPT ![f.obj] =
                         setup_page_listeners(PageMade(@, f.h, f.pg), f.pg, o)],
                    queue,
                    [flow EXCEPT ![p] = Done(f, "created", "none")], G)
    /\ UNCHANGED now

\* browser_tabs(action="close") up to its first await
TabsClose(p, sid, arg, G) ==
    /\ MayCall(p) /\ CanResolve(sid)
    /\ LET r == get_session(Reg, sid, now)
           s == r.heap[r.obj]
           index == IF arg[1] THEN arg[2] ELSE s.current_page_index
           f == [Call("tabs_close", sid) EXCEPT !.index = index] IN
        CommitBeside(r.sessions, r.heap, drv, r.queue,
               [flow EXCEPT ![p] =
                    IF 0 <= index /\ index < Len(s.pages)
                    THEN Suspend(f, "tk_close", r.obj, None,
                                 s.pages[index + 1])
                    ELSE Done(f, "invalid_index", "none")], G)
    /\ UNCHANGED now

\* await session.pages[index].close() came back
CloseResume(p, ok, G) ==
    /\ p \in Clients /\ flow[p].pc = "tk_close"
    /\ LET f == flow[p]
           o == f.obj IN
        IF ~ok THEN Raise(p, "DriverError", G)
        ELSE IF f.index >= Len(heap[o].pages)          \* pop index out of range
        THEN CommitBeside(sessions, heap,
                    [drv EXCEPT ![f.obj] = PageClosed(@, f.pg)], queue,
                    [flow EXCEPT ![p] = Done(f, "none", "IndexError")], G)
        ELSE CommitBeside(sessions, [heap EXCEPT ![o] = PopPage(@, f.index)],
                    [drv EXCEPT ![f.obj] = PageClosed(@, f.pg)], queue,
                    [flow EXCEPT ![p] = Done(f, "closed_tab", "none")], G)
    /\ UNCHANGED now

\* browser_tabs(action="list") up to its return or first await: the for loop
\* takes the first page of session.pages
TabsList(p, sid, G) ==
    /\ MayCall(p) /\ CanResolve(sid)
    /\ LET r == get_session(Reg, sid, now)
           s == r.heap[r.obj]
           f == Call("tabs_list", sid) IN
        CommitBeside(r.sessions, r.heap, drv, r.queue,
               [flow EXCEPT ![p] =
                    IF s.pages = <<>> THEN Done(f, "listed", "none")
                    ELSE Suspend(f, "tl_title", r.obj, None, s.pages[1])], G)
    /\ UNCHANGED now

\* await page.title() of the loop came back: the entry of tab i = f.index is
\* appended to tabs_info (its index, its page for title and url, whether it
\* is the active tab now) and the loop goes on to the next page of the list
\* object it iterates, if there is one; nothing catches an exception
ListResume(p, ok, G) ==
    /\ p \in Clients /\ flow[p].pc = "tl_title"
    /\ ok => PageUp(drv[flow[p].obj], flow[p].pg)
    /\ LET f == flow[p]
           s == heap[f.obj]
           pages == IF f.own THEN f.todo ELSE s.pages
           report == Append(f.report,
                            <<f.index, f.pg, f.index = s.current_page_index>>) IN
        IF ~ok THEN Raise(p, "DriverError", G)
        ELSE CommitBeside(sessions, heap, drv, queue,
                    [flow EXCEPT ![p] =
                         IF f.index + 1 < Len(pages)
                         THEN [f EXCEPT !.index = f.index + 1,
                                        !.pg = pages[f.index + 2],
                                        !.report = report]
                         ELSE [Done(f, "listed", "none") EXCEPT
                                   !.report = report]], G)
    /\ UNCHANGED now

\* browser_tabs with an action that is none of the four: no await
TabsUnknown(p, sid, G) ==
    /\ MayCall(p) /\ CanResolve(sid)
    /\ LET r == get_session(Reg, sid, now) IN
        CommitBeside(r.sessions, r.heap, drv, r.queue,
               [flow EXCEPT ![p] =
                    Done(Call("tabs_unknown", sid), "unknown_action", "none")],
               G)
    /\ UNCHANGED now

\* (mutant) select that clamps an index outside the tab list to the nearest
\* tab instead of refusing it
SelectTabClamped(s, index) ==
    IF s.pages = <<>> THEN [s |-> s, result |-> "invalid_index"]
    ELSE [s |-> [s EXCEPT !.current_page_index =
                     IF index < 0 THEN 0
                     ELSE IF index >= Len(s.pages) THEN Len(s.pages) - 1
                     ELSE index],
          result |-> "selected"]

\* the select branch of browser_tabs for an index that is not None: the
\* session after it and the text returned
SelectTab(s, index) ==
    IF 0 <= index /\ index < Len(s.pages)
    THEN [s |-> [s EXCEPT !.current_page_index = index], result |-> "selected"]
    ELSE [s |-> s, result |-> "invalid_index"]

\* browser_tabs(action="select"): no await
TabsSelect(p, sid, arg, G) ==
    /\ MayCall(p) /\ CanResolve(sid)
    /\ LET r == get_session(Reg, sid, now)
           f == [Call("tabs_select", sid) EXCEPT !.index = arg[2]]
           t == SelectTab(r.heap[r.obj], arg[2]) IN
        IF ~arg[1]
        THEN CommitBeside(r.sessions, r.heap, drv, r.queue,
                    [flow EXCEPT ![p] = Done(f, "index_required", "none")], G)
        ELSE CommitBeside(r.sessions, [r.heap EXCEPT ![r.obj] = t.s], drv, r.queue,
                    [flow EXCEPT ![p] = Done(f, t.result, "none")], G)
    /\ UNCHANGED now

\* browser_navigate up to its first await
BrowserNavigate(p, sid, n) ==
    /\ MayCall(p) /\ CanResolve(sid)
    /\ LET r == get_session(Reg, sid, now) IN
        \/ OpenEnterWithin(p, "navigate", sid, n, single)
        \/ /\ r.heap[r.obj].browser # None
           /\ NavIssue(p, Call("navigate", sid), r, single)
    /\ UNCHANGED now

\* page.goto and the two driver calls of _get_snapshot_result came back;
\* _get_snapshot_result turns an exception of its calls into an error result
NavResume(p, ok) ==
    /\ p \in Clients /\ flow[p].pc \in {"nav_goto", "nav_snap", "nav_title"}
    /\ LET f == flow[p]
           g == [f EXCEPT !.failed = @ \/ ~ok] IN
        CASE f.pc = "nav_goto" ->
               IF ok THEN Commit(sessions, heap, drv, queue,
                                 [flow EXCEPT ![p] = [f EXCEPT !.pc = "nav_snap"]])
               ELSE Raise(p, "DriverError", single)
          [] f.pc = "nav_snap" ->
               Commit(sessions, heap, drv, queue,
                      [flow EXCEPT ![p] =
                           IF ok THEN [f EXCEPT !.pc = "nav_title"]
                           ELSE Done(g, "snapshot_error", "none")])
          [] f.pc = "nav_title" ->
               Commit(sessions, heap, drv, queue,
                      [flow EXCEPT ![p] =
                           Done(g, IF ok THEN "navigated" ELSE "snapshot_error",
                                "none")])
    /\ UNCHANGED now

\* how browser_click is told where to click: role and name, a selector, or
\* neither
ClickHow == {"role", "selector", "neither"}

\* browser_click up to its first await
BrowserClick(p, sid, how) ==
    /\ MayCall(p) /\ CanResolve(sid)
    /\ LET r == get_session(Reg, sid, now)
           page == get_current_page(r.heap[r.obj])
           f == Call("click", sid) IN
        Commit(r.sessions, r.heap, drv, r.queue,
               [flow EXCEPT ![p] =
                    IF page = None THEN Done(f, "no_page", "none")
                    ELSE IF how = "neither"
                    THEN Done(f, "locator_required", "none")
                    ELSE Suspend(f, "ck_click", r.obj, None, page)])
    /\ UNCHANGED now

\* the click and the two driver calls of _get_snapshot_result came back; the
\* try of browser_click turns an exception of the click into an error result
ClickResume(p, ok) ==
    /\ p \in Clients /\ flow[p].pc \in {"ck_click", "ck_snap", "ck_title"}
    /\ LET f == flow[p]
           g == [f EXCEPT !.failed = @ \/ ~ok] IN
        Commit(sessions, heap, drv, queue,
               [flow EXCEPT ![p] =
                    CASE f.pc = "ck_click" ->
                           IF ok THEN [f EXCEPT !.pc = "ck_snap"]
                           ELSE Done(g, "click_failed", "none")
                      [] f.pc = "ck_snap" ->
                           IF ok THEN [f EXCEPT !.pc = "ck_title"]
                           ELSE Done(g, "snapshot_error", "none")
                      [] f.pc = "ck_title" ->
                           Done(g, IF ok THEN "clicked" ELSE "snapshot_error",
                                "none")])
    /\ UNCHANGED now

\* browser_press_key up to its first await
BrowserPressKey(p, sid) ==
    /\ MayCall(p) /\ CanResolve(sid)
    /\ LET r == get_session(Reg, sid, now)
           page == get_current_page(r.heap[r.obj])
           f == Call("press_key", sid) IN
        Commit(r.sessions, r.heap, drv, r.queue,
               [flow EXCEPT ![p] =
                    IF page = None THEN Done(f, "no_page", "none")
                    ELSE Suspend(f, "pk_press", r.obj, None, page)])
    /\ UNCHANGED now

\* page.keyboard.press and the two driver calls of _get_snapshot_result came
\* back; nothing catches an exception of page.keyboard.press
KeyResume(p, ok) ==
    /\ p \in Clients /\ flow[p].pc \in {"pk_press", "pk_snap", "pk_title"}
    /\ LET f == flow[p]
           g == [f EXCEPT !.failed = @ \/ ~ok] IN
        CASE f.pc = "pk_press" ->
               IF ok THEN Commit(sessions, heap, drv, queue,
                                 [flow EXCEPT ![p] = [f EXCEPT !.pc = "pk_snap"]])
               ELSE Raise(p, "DriverError", single)
          [] f.pc = "pk_snap" ->
               Commit(sessions, heap, drv, queue,
                      [flow EXCEPT ![p] =
                           IF ok THEN [f EXCEPT !.pc = "pk_title"]
                           ELSE Done(g, "snapshot_error", "none")])
          [] f.pc = "pk_title" ->
               Commit(sessions, heap, drv, queue,
                      [flow EXCEPT ![p] =
                           Done(g, IF ok THEN "pressed" ELSE "snapshot_error",
                                "none")])
    /\ UNCHANGED now

----------------------------------------------------------------------------
(* The other tools.  Each resolves its session with get_session first.     *)

\* session_create: session_id = str(uuid.uuid4()) is an id nothing in the
\* server holds; get_session(session_id) makes its session
SessionCreate(p) ==
    /\ MayCall(p)
    /\ \E sid \in Ids :
          /\ sid \notin Keys(sessions)
          /\ \A i \in 1..Len(queue) : queue[i] # sid
          /\ \A q \in Procs : flow[q].sid # sid
          /\ CanResolve(sid)
          /\ LET r == get_session(Reg, sid, now) IN
              Commit(r.sessions, r.heap, drv, r.queue,
                     [flow EXCEPT ![p] = Done(Call("session_create", sid),
                                              "session_id", "none")])
    /\ UNCHANGED now

\* msg["type"] == "error" of an entry of the console buffer
IsError(msg) == Len(msg) = 3

\* browser_console_messages: resolve the session and return its console
\* buffer, or the entries of type "error" in it
BrowserConsoleMessages(p, sid, onlyErrors) ==
    /\ MayCall(p) /\ CanResolve(sid)
    /\ LET r == get_session(Reg, sid, now)
           msgs == r.heap[r.obj].console_messages IN
        Commit(r.sessions, r.heap, drv, r.queue,
               [flow EXCEPT ![p] =
                    [Done(Call("console_messages", sid), "ok", "none")
                        EXCEPT !.report = IF onlyErrors
                                          THEN SelectSeq(msgs, IsError)
                                          ELSE msgs]])
    /\ UNCHANGED now

\* browser_handle_dialog: no await; page.once("dialog", handle_dialog)
\* registers the handler on the current page
BrowserHandleDialog(p, sid) ==
    /\ MayCall(p) /\ CanResolve(sid)
    /\ LET r == get_session(Reg, sid, now)
           page == get_current_page(r.heap[r.obj])
           f == Call("handle_dialog", sid) IN
        IF page = None
        THEN Commit(r.sessions, r.heap, drv, r.queue,
                    [flow EXCEPT ![p] = Done(f, "no_page", "none")])
        ELSE Commit(r.sessions, r.heap,
                    [drv EXCEPT ![r.obj].dlg = @ \cup {page}], r.queue,
                    [flow EXCEPT ![p] = Done(f, "handler_set", "none")])
    /\ UNCHANGED now

\* a dialog opens on a page: the handlers registered with once run and are
\* removed
DialogEvent(o, pg) ==
    /\ PageUp(drv[o], pg) /\ pg \in drv[o].dlg
    /\ Commit(sessions, heap, [drv EXCEPT ![o].dlg = @ \ {pg}], queue, flow)
    /\ UNCHANGED now

\* The tools that work on the current page and leave the session as it is.
\* What a call does is the sequence of its awaits, by what happens when the
\* driver call raises:
\*   "await"  nothing catches the exception
\*   "try"    the try of the tool returns an error result
\*   "field"  the try around one field of browser_fill_form notes the error
\*            and the loop goes on
\*   "query"  page.query_selector, which may return None; nothing catches
\*   "tryquery"  the same inside the try of the tool
\*   "snap", "title"  the two awaits of _get_snapshot_result, whose try
\*            returns an error result
PageTools ==
    {"navigate_back", "resize", "snapshot", "take_screenshot", "get_html",
     "hover", "type", "fill_form", "select_option", "file_upload", "drag",
     "evaluate", "wait_for"}

\* the ways through a tool that its arguments choose
PageToolPaths(tool) ==
    CASE tool \in {"take_screenshot", "evaluate"} -> {"page", "element"}
      [] tool = "get_html" -> {"body", "selector"}
      [] tool \in {"hover", "select_option"} -> ClickHow
      [] tool = "type" -> ClickHow \cup {"role_submit", "selector_submit"}
      [] tool = "fill_form" -> {"no_value", "one", "two", "no_locator"}
      [] tool = "file_upload" -> {"paths", "no_paths"}
      [] tool = "drag" -> {"both", "no_start", "no_end"}
      [] tool = "wait_for" -> {"time", "text", "textGone", "nothing"}
      [] OTHER -> {"only"}

\* the result a tool returns before it awaits anything, "none" if it awaits
PageToolEarly(tool, path) ==
    CASE tool \in {"hover", "select_option", "type"} /\ path = "neither" ->
           "locator_required"
      [] tool = "drag" /\ path = "no_start" -> "start_required"
      [] tool = "drag" /\ path = "no_end" -> "end_required"
      [] tool = "wait_for" /\ path = "nothing" -> "no_condition"
      [] OTHER -> "none"

\* the awaits of a tool, in order
PageToolPlan(tool, path) ==
    CASE tool = "navigate_back" -> <<"await", "snap", "title">>
      [] tool = "resize" -> <<"await">>
      [] tool = "snapshot" -> <<"await", "await">>
      [] tool \in {"take_screenshot", "evaluate"} ->
           IF path = "element" THEN <<"query", "await">> ELSE <<"await">>
      [] tool = "get_html" ->
           IF path = "selector" THEN <<"tryquery", "try">> ELSE <<"try">>
      [] tool \in {"hover", "select_option", "drag"} ->
           <<"try", "snap", "title">>
      [] tool = "type" ->
           IF path \in {"role_submit", "selector_submit"}
           THEN <<"try", "try", "snap", "title">>
           ELSE <<"try", "snap", "title">>
      [] tool = "fill_form" ->
           CASE path = "one" -> <<"field", "snap", "title">>
             [] path = "two" -> <<"field", "field", "snap", "title">>
             [] OTHER -> <<"snap", "title">>
      [] tool = "file_upload" -> <<"await", "await">>
      [] OTHER -> <<"await">>

\* the result of a tool whose awaits all came back
PageToolResult(tool, path) ==
    CASE tool = "type" /\ path \in {"role_submit", "selector_submit"} ->
           "typed_and_submitted"
      [] tool = "file_upload" /\ path = "no_paths" -> "chooser_cancelled"
      [] OTHER -> "ok"

\* a tool of PageTools up to its return or first await
PageTool(p, sid, tool, path) ==
    /\ MayCall(p) /\ CanResolve(sid)
    /\ tool \in PageTools /\ path \in PageToolPaths(tool)
    /\ LET r == get_session(Reg, sid, now)
           page == get_current_page(r.heap[r.obj])
           f == Call(tool, sid) IN
        Commit(r.sessions, r.heap, drv, r.queue,
               [flow EXCEPT ![p] =
                    IF page = None THEN Done(f, "no_page", "none")
                    ELSE IF PageToolEarly(tool, path) # "none"
                    THEN Done(f, PageToolEarly(tool, path), "none")
                    ELSE Suspend([f EXCEPT !.todo = PageToolPlan(tool, path),
                                           !.result = PageToolResult(tool, path)],
                                 "pt_await", r.obj, None, page)])
    /\ UNCHANGED now

\* the pending driver call of a tool of PageTools came back with a value
\* (res = "ok"), an exception or, page.query_selector only, None
PageToolResume(p, res) ==
    /\ p \in Clients /\ flow[p].pc = "pt_await"
    /\ res = "None" => Head(flow[p].todo) \in {"query", "tryquery"}
    /\ LET f == flow[p]
           step == Head(f.todo)
           g == [f EXCEPT !.failed = @ \/ res = "raised", !.todo = Tail(@)]
           on == IF g.todo = <<>> THEN Done(g, f.result, "none") ELSE g IN
        CASE res = "ok" \/ (res = "raised" /\ step = "field") ->
               Commit(sessions, heap, drv, queue, [flow EXCEPT ![p] = on])
          [] res = "None" /\ f.op = "take_screenshot" ->
               Commit(sessions, heap, drv, queue,
                      [flow EXCEPT ![p] = Done(f, "none", "ValueError")])
          [] res = "None" ->
               Commit(sessions, heap, drv, queue,
                      [flow EXCEPT ![p] = Done(f, "element_not_found", "none")])
          [] step \in {"await", "query"} -> Raise(p, "DriverError", single)
          [] step \in {"try", "tryquery"} ->
               Commit(sessions, heap, drv, queue,
                      [flow EXCEPT ![p] = Done(g, "failed", "none")])
          [] OTHER ->
               Commit(sessions, heap, drv, queue,
                      [flow EXCEPT ![p] = Done(g, "snapshot_error", "none")])
    /\ UNCHANGED now

----------------------------------------------------------------------------
(* Specifications.  Each one lets the clients call some of the tools.      *)

\* The registry under load: every session id, no browser is opened.
Next ==
    \/ Tick
    \/ \E p \in Clients, sid \in Ids : BrowserNetworkRequests(p, sid)
    \/ \E p \in Clients, sid \in Ids : BrowserClose(p, sid)
    \/ \E p \in Tasks : TaskStart(p)
    \/ ReaperSweep

Spec == Init /\ [][Next]_vars

\* Teardown of open sessions: browsers are opened under session id 1, every
\* id is resolved and closed, eviction tasks run; the clock stands still.
NextTeardown ==
    \/ \E p \in Clients, sid \in Ids : BrowserNetworkRequests(p, sid)
    \/ \E p \in Clients, sid \in Ids : BrowserClose(p, sid)
    \/ \E p \in Tasks : TaskStart(p)
    \/ \E p \in Procs, ok \in BOOLEAN : CleanupResume(p, ok)
    \/ \E p \in Clients : BrowserOpen(p, 1)
    \/ \E p \in Clients, ok \in BOOLEAN : InitResume(p, ok, single)
    \/ \E o \in Objs, b \in Gens : BrowserCrash(o, b)
    \/ \E o \in Objs, b \in Gens : HandleBrowserClose(o, b)

SpecTeardown == Init /\ [][NextTeardown]_vars

\* The tab list of one session id, two calls in flight.
NextTabs ==
    \/ \E p \in Clients : BrowserOpen(p, 1)
    \/ \E p \in Clients, ok \in BOOLEAN : InitResume(p, ok, single)
    \/ \E p \in Clients : BrowserClose(p, 1)
    \/ \E p \in Clients, ok \in BOOLEAN : CleanupResume(p, ok)
    \/ \E o \in Objs, b \in Gens : BrowserCrash(o, b)
    \/ \E o \in Objs, b \in Gens : HandleBrowserClose(o, b)
    \/ \E p \in Clients : TabsCreate(p, 1, MaxGen, single)
    \/ \E p \in Clients, ok \in BOOLEAN : CreateResume(p, ok, single)
    \/ \E p \in Clients, arg \in IndexArgs : TabsClose(p, 1, arg, single)
    \/ \E p \in Clients, ok \in BOOLEAN : CloseResume(p, ok, single)
    \/ \E p \in Clients, arg \in IndexArgs : TabsSelect(p, 1, arg, single)

SpecTabs == Init /\ [][NextTabs]_vars

\* Two browser_tabs calls in flight on one session whose browser stays up:
\* nothing but the tools touches the tab list.
NextTabRace ==
    \/ \E p \in Clients : BrowserOpen(p, 1)
    \/ \E p \in Clients : InitResume(p, TRUE, single)
    \/ \E p \in Clients : TabsCreate(p, 1, MaxGen, single)
    \/ \E p \in Clients : CreateResume(p, TRUE, single)
    \/ \E p \in Clients, arg \in IndexArgs : TabsClose(p, 1, arg, single)
    \/ \E p \in Clients : CloseResume(p, TRUE, single)
    \/ \E p \in Clients, arg \in IndexArgs : TabsSelect(p, 1, arg, single)

SpecTabRace == Init /\ [][NextTabRace]_vars

\* Two session ids side by side, each with its own browser and tabs.
NextIso ==
    \/ \E p \in Clients, sid \in 1..2 : BrowserOpen(p, sid)
    \/ \E p \in Clients : InitResume(p, TRUE, single)
    \/ \E p \in Clients, sid \in 1..2 : BrowserClose(p, sid)
    \/ \E p \in Clients, ok \in BOOLEAN : CleanupResume(p, ok)
    \/ \E p \in Clients, sid \in 1..2 : TabsCreate(p, sid, MaxGen, single)
    \/ \E p \in Clients : CreateResume(p, TRUE, single)
    \/ \E p \in Clients, sid \in 1..2, arg \in IndexArgs :
          TabsClose(p, sid, arg, single)
    \/ \E p \in Clients : CloseResume(p, TRUE, single)
    \/ \E p \in Clients, sid \in 1..2, arg \in IndexArgs :
          TabsSelect(p, sid, arg, single)

SpecIso == Init /\ [][NextIso]_vars

\* Pages at work: two session ids are navigated (which opens them), tabs are
\* added to the second, and the pages that load emit console and request
\* events.
EventKinds == {"console", "request"}

NextEvents ==
    \/ \E p \in Clients : InitResume(p, TRUE, single)
    \/ \E p \in Clients, sid \in 1..2 : BrowserNavigate(p, sid, MaxGen)
    \/ \E p \in Clients : NavResume(p, TRUE)
    \/ \E p \in Clients : TabsCreate(p, 2, MaxGen, single)
    \/ \E p \in Clients : CreateResume(p, TRUE, single)
    \/ \E o \in Objs, pg \in 1..MaxPages, kind \in EventKinds :
          PageEvent(o, pg, kind)

SpecEvents == Init /\ [][NextEvents]_vars

\* Opening one session id while its pages are at work.
NextOpenEvents ==
    \/ \E p \in Clients : BrowserOpen(p, 1)
    \/ \E p \in Clients, ok \in BOOLEAN : InitResume(p, ok, single)
    \/ \E p \in Clients : BrowserNavigate(p, 1, MaxGen)
    \/ \E p \in Clients, ok \in BOOLEAN : NavResume(p, ok)
    \/ \E o \in Objs, pg \in 1..MaxPages, kind \in EventKinds :
          PageEvent(o, pg, kind)

SpecOpenEvents == Init /\ [][NextOpenEvents]_vars

\* The single-tenant server (server.py) beside this one.  A result is the
\* text returned: the name of its format string and the values put into it; a
\* call that raised has the result <<>>.

\* a tool call of server.py returned result or raised
ServerDone(g, p, op, result, raised) ==
    [g EXCEPT !.co[p] = ServerIdle,
              !.out = [pc |-> "done", op |-> op, result |-> result,
                       raised |-> raised]]

\* server.py: _initialize_browser up to its first await
server_initialize_enter(g, p, op) ==
    [g EXCEPT !.launched = @ + 1,
              !.co[p] = [ServerIdle EXCEPT !.op = op, !.pc = "ib_start",
                                           !.h = g.launched + 1]]

\* server.py: new_page = await context.new_page() of browser_tabs create
server_new_page(g, p, op) ==
    IF g.context = None THEN ServerDone(g, p, op, <<>>, "AttributeError")
    ELSE [g EXCEPT !.made = @ + 1,
                   !.co[p] = [ServerIdle EXCEPT !.op = op, !.pc = "tc_page",
                                                !.h = g.context,
                                                !.pg = g.made + 1]]

\* server.py: "return pages[current_page_index]" of ensure_browser, which
\* raises IndexError outside -len(pages)..len(pages)-1, and what the caller
\* does after it: the create branch of browser_tabs makes a page,
\* browser_navigate and browser_search call page.goto
server_ensured(g, p, op) ==
    IF 0 - Len(g.pages) <= g.current_page_index
           /\ g.current_page_index < Len(g.pages)
    THEN IF op = "tabs_create" THEN server_new_page(g, p, op)
         ELSE [g EXCEPT !.co[p] =
                   [ServerIdle EXCEPT
                        !.op = op, !.pc = "nav_goto",
                        !.pg = g.pages[IF g.current_page_index >= 0
                                       THEN g.current_page_index + 1
                                       ELSE Len(g.pages)
                                                + g.current_page_index + 1]]]
    ELSE ServerDone(g, p, op, <<>>, "IndexError")

\* server.py: handle_browser_close, the "disconnected" callback
server_handle_browser_close(g) ==
    [g EXCEPT !.browser = None, !.context = None, !.pages = <<>>,
              !.playwright_instance = None, !.current_page_index = 0,
              !.co = Rebound(@, Clients, g.pages)]

\* server.py: browsers bs go away; each that was running emits
\* "disconnected"
server_browsers_gone(g, bs) ==
    [g EXCEPT !.brLive = @ \ bs, !.disc = @ \cup (bs \cap g.brLive)]

\* server.py: browser_navigate and browser_search up to the first await
server_browser_navigate(g, p) ==
    IF g.browser = None THEN server_initialize_enter(g, p, "navigate")
    ELSE server_ensured(g, p, "navigate")

\* server.py: browser_close up to its return or first await
server_browser_close(g, p) ==
    IF g.browser = None
    THEN ServerDone(g, p, "close", <<"was_not_open">>, "none")
    ELSE IF g.context = None
    THEN ServerDone(g, p, "close", <<>>, "AttributeError")
    ELSE [g EXCEPT !.co[p] = [ServerIdle EXCEPT !.op = "close",
                                                !.pc = "bc_ctx",
                                                !.h = g.context]]


\* server.py: browser_open up to its return or first await
server_browser_open(g, p) ==
    IF g.browser # None
    THEN ServerDone(g, p, "open", <<"already_open_close_it_first">>, "none")
    ELSE server_initialize_enter(g, p, "open")

\* server.py: browser_tabs up to its return or first await
server_browser_tabs(g, p, action, arg) ==
    CASE action = "tabs_list" ->
           IF g.pages = <<>>
           THEN ServerDone(g, p, action, <<"listed", <<>>>>, "none")
           ELSE [g EXCEPT !.co[p] = [ServerIdle EXCEPT !.op = action,
                                                       !.pc = "tl_title",
                                                       !.pg = g.pages[1]]]
      [] action = "tabs_create" ->
           IF g.browser = None THEN server_initialize_enter(g, p, action)
           ELSE server_ensured(g, p, action)
      [] action = "tabs_close" ->
           LET index == IF arg[1] THEN arg[2] ELSE g.current_page_index IN
           IF 0 <= index /\ index < Len(g.pages)
           THEN [g EXCEPT !.co[p] = [ServerIdle EXCEPT !.op = action,
                                                       !.pc = "tk_close",
                                                       !.index = index,
                                                       !.pg = g.pages[index + 1]]]
           ELSE ServerDone(g, p, action, <<"invalid_index", index>>, "none")
      [] action = "tabs_select" ->
           IF ~arg[1]
           THEN ServerDone(g, p, action, <<"index_required">>, "none")
           ELSE IF 0 <= arg[2] /\ arg[2] < Len(g.pages)
           THEN ServerDone([g EXCEPT !.current_page_index = arg[2]], p, action,
                           <<"selected", arg[2]>>, "none")
           ELSE ServerDone(g, p, action, <<"invalid_index", arg[2]>>, "none")
      [] OTHER -> ServerDone(g, p, action, <<"unknown_action">>, "none")

\* server.py: the pending driver call of the tool call of client p came back
server_resume(g, p, ok) ==
    LET c == g.co[p] IN
    IF c.pc = "idle" THEN g
    ELSE IF ~ok
    THEN IF c.pc \in {"nav_snap", "nav_title"}
         THEN ServerDone(g, p, c.op, <<"snapshot_error">>, "none")
         ELSE ServerDone(g, p, c.op, <<>>, "DriverError")
    ELSE CASE c.pc = "ib_start" ->
                [g EXCEPT !.playwright_instance = c.h,
                          !.co[p].pc = "ib_launch"]
           [] c.pc = "ib_launch" ->
                [g EXCEPT !.browser = c.h, !.brLive = @ \cup {c.h},
                          !.co[p].pc = "ib_ctx"]
           [] c.pc = "ib_ctx" ->
                [g EXCEPT !.context = c.h, !.made = @ + 1,
                          !.co[p].pc = "ib_page", !.co[p].pg = g.made + 1]
           [] c.pc = "ib_page" ->
                [g EXCEPT !.pages = <<c.pg>>, !.current_page_index = 0,
                          !.co = Rebound([@ EXCEPT ![p].pc = "ib_s1"], Clients,
                                         g.pages)]
           [] c.pc = "ib_s1" -> [g EXCEPT !.co[p].pc = "ib_s2"]
           [] c.pc = "ib_s2" ->
                IF c.op = "open"
                THEN ServerDone(g, p, c.op, <<"opened">>, "none")
                ELSE server_ensured(g, p, c.op)
           [] c.pc = "tc_page" ->
                LET pages == Append(g.pages, c.pg) IN
                ServerDone([g EXCEPT !.pages = pages,
                                     !.current_page_index = Len(pages) - 1],
                           p, c.op, <<"created", Len(pages) - 1>>, "none")
           [] c.pc = "tk_close" ->
                IF c.index >= Len(g.pages)
                THEN ServerDone(g, p, c.op, <<>>, "IndexError")
                ELSE LET pages == RemoveAt(g.pages, c.index + 1) IN
                     ServerDone(
                         [g EXCEPT !.pages = pages,
                                   !.current_page_index =
                                       IF @ >= Len(pages)
                                       THEN (IF Len(pages) - 1 > 0
                                             THEN Len(pages) - 1 ELSE 0)
                                       ELSE @],
                         p, c.op, <<"closed_tab", c.index>>, "none")
           [] c.pc = "tl_title" ->
                LET pages == IF c.own THEN c.todo ELSE g.pages
                    report == Append(c.report,
                                     <<c.index, c.pg,
                                       c.index = g.current_page_index>>) IN
                IF c.index + 1 < Len(pages)
                THEN [g EXCEPT !.co[p].index = c.index + 1,
                               !.co[p].pg = pages[c.index + 2],
                               !.co[p].report = report]
                ELSE ServerDone(g, p, c.op, <<"listed", report>>, "none")
           [] c.pc = "nav_goto" -> [g EXCEPT !.co[p].pc = "nav_snap"]
           [] c.pc = "nav_snap" -> [g EXCEPT !.co[p].pc = "nav_title"]
           [] c.pc = "nav_title" ->
                ServerDone(g, p, c.op, <<"navigated">>, "none")
           [] c.pc = "bc_ctx" ->
                IF g.browser = None
                THEN ServerDone(g, p, c.op, <<>>, "AttributeError")
                ELSE [g EXCEPT !.co[p].pc = "bc_br", !.co[p].h = g.browser]
           [] c.pc = "bc_br" ->
                LET g1 == server_browsers_gone(g, {c.h}) IN
                IF g.playwright_instance = None
                THEN ServerDone(server_handle_browser_close(g1), p, c.op,
                                <<"closed">>, "none")
                ELSE [g1 EXCEPT !.co[p].pc = "bc_pw",
                                !.co[p].h = g.playwright_instance]
           [] c.pc = "bc_pw" ->
                ServerDone(server_handle_browser_close(
                               server_browsers_gone(g, {c.h})),
                           p, c.op, <<"closed">>, "none")

\* server.py: the handle the pending driver call of client p was made on is
\* still running; a call on a handle that is gone can only raise
ServerLive(g, p) ==
    g.co[p].pc \in {"ib_ctx", "ib_page", "ib_s1", "ib_s2", "tc_page"}
        => g.co[p].h \in g.brLive

\* server.py at the start of a step: no tool call of it has ended in the
\* step yet
ServerBefore ==
    [single EXCEPT !.out = [pc |-> "none", op |-> "none", result |-> <<>>,
                            raised |-> "none"]]

\* a tool call starts: seq stays TRUE only if no other call is in flight on
\* either server
ServerStarted(g) ==
    [g EXCEPT !.seq = @ /\ \A q \in Clients :
                               Free(flow[q]) /\ single.co[q].pc = "idle"]

\* browser_open(session_id=sid) and, on server.py, browser_open(), called by
\* client p: both up to the return or the first await
BothOpen(p, sid) ==
    /\ single.co[p].pc = "idle"
    /\ BrowserOpenWithin(p, sid, MaxRelaunch,
           ServerStarted(server_browser_open(ServerBefore, p)))

\* browser_tabs(action, session_id=sid, index) and, on server.py,
\* browser_tabs(action, index), called by client p
BothTabs(p, sid, action, arg) ==
    LET G == ServerStarted(server_browser_tabs(ServerBefore, p, action, arg)) IN
    /\ single.co[p].pc = "idle" /\ G.made <= MaxPages
    /\ CASE action = "tabs_list" -> TabsList(p, sid, G)
         [] action = "tabs_create" -> TabsCreate(p, sid, MaxRelaunch, G)
         [] action = "tabs_close" -> TabsClose(p, sid, arg, G)
         [] action = "tabs_select" -> TabsSelect(p, sid, arg, G)
         [] OTHER -> TabsUnknown(p, sid, G)

\* the pending driver call of client p came back, on both servers, where the
\* client has a call suspended
BothResume(p, ok) ==
    LET G == server_resume(ServerBefore, p, ok) IN
    /\ G.made <= MaxPages /\ (ok => ServerLive(single, p))
    /\ flow[p].pc = "ib_ctx" => drv[flow[p].obj].npages < MaxPages
    /\ \/ InitResume(p, ok, G)
       \/ CreateResume(p, ok, G)
       \/ CloseResume(p, ok, G)
       \/ ListResume(p, ok, G)
       \/ /\ p \in Clients /\ Free(flow[p]) /\ single.co[p].pc # "idle"
          /\ CommitBeside(sessions, heap, drv, queue, flow, G)
          /\ UNCHANGED now

TabActions ==
    {"tabs_list", "tabs_create", "tabs_close", "tabs_select", "tabs_unknown"}

\* The two servers given the same calls and the same driver results: one
\* session id, browser_open and browser_tabs, calls in flight together.
NextRefine ==
    \/ \E p \in Clients : BothOpen(p, 1)
    \/ \E p \in Clients, action \in TabActions, arg \in IndexArgs :
          BothTabs(p, 1, action, arg)
    \/ \E p \in Clients : BothResume(p, TRUE)

SpecRefine == Init /\ [][NextRefine]_vars

\* server.py alone.  A step of it leaves this server as it is; started: a
\* client made a call in the step.
SingleStep(G, started) ==
    /\ G.made <= MaxPages /\ G.launched <= MaxRelaunch
    /\ single' = G
    /\ calls' = IF started THEN calls + 1 ELSE calls
    /\ UNCHANGED <<sessions, heap, drv, queue, flow, now, out>>

\* server.py: the tools that write its globals, by name (browser_search
\* does what browser_navigate does)
ServerTools == {"open", "navigate", "close"} \cup TabActions

\* server.py: client p calls a tool
SingleCall(p, tool, arg) ==
    /\ p \in Clients /\ single.co[p].pc = "idle" /\ calls < MaxCalls
    /\ SingleStep(ServerStarted(
           CASE tool = "open" -> server_browser_open(ServerBefore, p)
             [] tool = "navigate" -> server_browser_navigate(ServerBefore, p)
             [] tool = "close" -> server_browser_close(ServerBefore, p)
             [] OTHER -> server_browser_tabs(ServerBefore, p, tool, arg)),
           TRUE)

\* server.py: the pending driver call of client p came back
SingleResume(p, ok) ==
    /\ p \in Clients /\ single.co[p].pc # "idle"
    /\ ok => ServerLive(single, p)
    /\ SingleStep(server_resume(ServerBefore, p, ok), FALSE)

\* server.py: browser b goes away by itself
SingleCrash(b) ==
    /\ b \in single.brLive
    /\ SingleStep(server_browsers_gone(ServerBefore, {b}), FALSE)

\* server.py: the event loop delivers "disconnected" of browser b
SingleDisconnected(b) ==
    /\ b \in single.disc
    /\ SingleStep([server_handle_browser_close(ServerBefore) EXCEPT
                       !.disc = @ \ {b}], FALSE)

\* The single-tenant server under its clients: every tool of it that writes
\* its globals.  A driver call raises only where its browser is gone.
NextSingle ==
    \/ \E p \in Clients, tool \in ServerTools, arg \in IndexArgs :
          SingleCall(p, tool, arg)
    \/ \E p \in Clients : SingleResume(p, ServerLive(single, p))
    \/ \E b \in Gens : SingleCrash(b)
    \/ \E b \in Gens : SingleDisconnected(b)

SpecSingle == Init /\ [][NextSingle]_vars

\* the loop of main came to the end of its list
Halt(f) ==
    IF f.pc = "swept" THEN [f EXCEPT !.pc = "stopped", !.op = "shutdown"] ELSE f

\* mcp.run() returned, no tool call in flight: cleanup_task.cancel(), then
\* the loop up to its first await.  A reaper inside asyncio.sleep ends there,
\* cancelled; one inside a driver call of cleanup_session has CancelledError
\* raised at that await when the event loop runs it next; one that an
\* exception ended is left as it is.
Shutdown ==
    /\ Serving
    /\ \A p \in Clients : Free(flow[p])
    /\ LET todo == [i \in 1..Len(sessions) |-> sessions[i].sid]
           r == flow[Reaper]
           F == [flow EXCEPT ![Reaper] =
                     IF r.pc = "sleep"
                     THEN [Idle EXCEPT !.pc = "cancelled", !.op = "reap"]
                     ELSE IF r.pc \in CsPcs
                     THEN [r EXCEPT !.raised = "CancelledError"]
                     ELSE r] IN
        IF todo = <<>>
        THEN Commit(sessions, heap, drv, queue,
                    [F EXCEPT ![Main] =
                         [Idle EXCEPT !.pc = "stopped", !.op = "shutdown"]])
        ELSE LET l == ReapLoop(CsEnter(Cur, heap, Head(todo)), heap,
                               [Call("shutdown", Head(todo)) EXCEPT
                                    !.todo = Tail(todo)], TRUE) IN
             Commit(l.X.sessions, heap, l.X.drv, queue,
                    [F EXCEPT ![Main] = Halt(l.f)])
    /\ UNCHANGED now

\* asyncio.run(main()): main has ended and the loop has finished its turn;
\* every task that is left is cancelled.  An eviction task that has not
\* started never runs.
CancelAllTasks ==
    /\ ShutdownOver /\ ~LoopStopped
    /\ Commit(sessions, heap, drv, <<>>,
              [p \in Procs |->
                   IF p \in Tasks /\ flow[p].pc \in CsPcs
                   THEN [flow[p] EXCEPT !.raised = "CancelledError"]
                   ELSE flow[p]])
    /\ UNCHANGED now

\* The event loop runs a cancelled task: the reaper that cleanup_task.cancel()
\* of main interrupted, or a task that asyncio.run cancelled.  CancelledError
\* is raised at the pending await of its cleanup_session, passes "except
\* Exception" and the finally block deletes the entry: the task ends
\* cancelled, or with the KeyError of the del.
Cancelled(p) ==
    /\ p \in Tasks \cup {Reaper}
    /\ flow[p].pc \in CsPcs /\ flow[p].raised = "CancelledError"
    /\ p \in Tasks => LoopStopped
    /\ LET r == CsFinally(Cur, flow[p].sid, FALSE)
           exc == IF r.exc = "none" THEN "CancelledError" ELSE r.exc IN
        Commit(r.sessions, heap, r.drv, queue,
               [flow EXCEPT ![p] =
                    IF p = Reaper
                    THEN [Idle EXCEPT !.pc = IF r.exc = "none"
                                            THEN "cancelled" ELSE "dead",
                                      !.op = "reap", !.sid = flow[p].sid,
                                      !.raised = exc]
                    ELSE Done(flow[p], "none", exc)])
    /\ UNCHANGED now

\* a close call made by a cleanup_session of the shutdown loop came back; the
\* cancelled reaper, made ready by cancel(), has run before it
ShutdownResume(ok) ==
    /\ flow[Main].pc \in CsPcs /\ flow[Reaper].pc \notin CsPcs
    /\ LET l == ReapLoop(CsResume(Cur, heap, flow[Main], ok), heap,
                         flow[Main], ok) IN
        Commit(l.X.sessions, heap, l.X.drv, queue,
               [flow EXCEPT ![Main] = Halt(l.f)])
    /\ UNCHANGED now

\* The server is shut down while eviction tasks are scheduled or running
\* and while the reaper sleeps or sweeps: session id 1 is opened, the ids are
\* resolved until the dict is full, time passes, then main leaves mcp.run().
\* Every driver call succeeds.
NextShutdown ==
    \/ Serving /\ \E p \in Clients : BrowserOpen(p, 1)
    \/ \E p \in Clients : InitResume(p, TRUE, single)
    \/ Serving /\ \E p \in Clients, sid \in Ids : BrowserNetworkRequests(p, sid)
    \/ \E p \in Tasks : TaskStart(p)
    \/ \E p \in Tasks : CleanupResume(p, TRUE)
    \/ Tick
    \/ Serving /\ ReaperSweep
    \/ ReaperResume(TRUE)
    \/ CancelAllTasks
    \/ \E p \in Tasks \cup {Reaper} : Cancelled(p)
    \/ Shutdown
    \/ ShutdownResume(TRUE)

SpecShutdown == Init /\ [][NextShutdown]_vars

\* A session whose browser goes away and is opened again: browser_open on one
\* session id, browsers that crash, and their "disconnected" events.
NextDisconnect ==
    \/ \E p \in Clients : BrowserOpenWithin(p, 1, MaxRelaunch, single)
    \/ \E p \in Clients, ok \in BOOLEAN : InitResume(p, ok, single)
    \/ \E o \in Objs, b \in Gens : BrowserCrash(o, b)
    \/ \E o \in Objs, b \in Gens : HandleBrowserClose(o, b)

SpecDisconnect == Init /\ [][NextDisconnect]_vars

\* The idle reaper: the clock runs, two session ids are resolved, a browser is
\* opened under session id 1 and closed by the clients while the reaper
\* sweeps.
NextReaper ==
    \/ Tick
    \/ \E p \in Clients, sid \in 1..2 : BrowserNetworkRequests(p, sid)
    \/ \E p \in Clients : BrowserOpen(p, 1)
    \/ \E p \in Clients : InitResume(p, TRUE, single)
    \/ \E p \in Clients : BrowserClose(p, 1)
    \/ \E p \in Clients, ok \in BOOLEAN : CleanupResume(p, ok)
    \/ ReaperSweep
    \/ \E ok \in BOOLEAN : ReaperResume(ok)

SpecReaper == Init /\ [][NextReaper]_vars

\* Teardown with a call in flight: client 1 closes session id 1 while a
\* browser_tabs call of client 2 on it is suspended at the driver; no other
\* flow runs cleanup_session.
NextInFlight ==
    \/ \E p \in Clients : BrowserOpen(p, 1)
    \/ \E p \in Clients, ok \in BOOLEAN : InitResume(p, ok, single)
    \/ BrowserClose(1, 1)
    \/ \E ok \in BOOLEAN : CleanupResume(1, ok)
    \/ \E o \in Objs, b \in Gens : HandleBrowserClose(o, b)
    \/ TabsCreate(2, 1, MaxGen, single)
    \/ \E ok \in BOOLEAN : CreateResume(2, ok, single)
    \/ \E arg \in IndexArgs : TabsClose(2, 1, arg, single)
    \/ \E ok \in BOOLEAN : CloseResume(2, ok, single)

SpecInFlight == Init /\ [][NextInFlight]_vars

\* Listing the sessions: the clock runs, two session ids are resolved, a
\* browser is opened under session id 1, and the clients list the sessions.
NextList ==
    \/ Tick
    \/ \E p \in Clients, sid \in 1..2 : BrowserNetworkRequests(p, sid)
    \/ \E p \in Clients : BrowserOpen(p, 1)
    \/ \E p \in Clients : InitResume(p, TRUE, single)
    \/ \E p \in Clients : SessionList(p)

SpecList == Init /\ [][NextList]_vars

\* get_current_page as a function of its argument.  The tab lists: up to
\* MaxPages different pages in any order; the cursors: every value from one
\* below the first index to one past the longest list.
RECURSIVE PageLists(_)
PageLists(n) ==
    IF n = 0 THEN {<<>>}
    ELSE PageLists(n - 1) \cup
         {l \in {Append(k, pg) : k \in PageLists(n - 1), pg \in 1..MaxPages} :
              Len(l) = n /\ \A i, j \in 1..n : l[i] = l[j] => i = j}

Cursors == (0 - 1)..MaxPages

\* one session in the dict, with the tab list and the cursor to look up
InitPage ==
    /\ \E l \in PageLists(MaxPages), c \in Cursors :
          heap = [o \in Objs |->
                    IF o = 1 THEN [BrowserSession(1, 0) EXCEPT
                                      !.pages = l, !.current_page_index = c]
                    ELSE Blank]
    /\ sessions = <<[sid |-> 1, obj |-> 1]>>
    /\ drv = [o \in Objs |-> DrvInit]
    /\ queue = <<>>
    /\ flow = [p \in Procs |-> IF p = Reaper THEN Sleeping ELSE Idle]
    /\ now = 0
    /\ out = NoOut
    /\ calls = 0
    /\ single = Globals

\* page = get_current_page(session), as the tools call it on the session
\* get_session returned; the page (or None) goes out in pg
GetCurrentPage(p, sid) ==
    /\ MayCall(p) /\ CanResolve(sid)
    /\ LET r == get_session(Reg, sid, now) IN
        Commit(r.sessions, r.heap, drv, r.queue,
               [flow EXCEPT ![p] =
                    [Done(Call("get_current_page", sid), "ok", "none")
                        EXCEPT !.pg = get_current_page(r.heap[r.obj])]])
    /\ UNCHANGED now

NextPage == \E p \in Clients : GetCurrentPage(p, 1)

SpecPage == InitPage /\ [][NextPage]_vars

\* The tools that call the driver, on one session id, with driver calls that
\* come back with their result or with an exception.
NextHandlers ==
    \/ \E p \in Clients : BrowserOpen(p, 1)
    \/ \E p \in Clients, ok \in BOOLEAN : InitResume(p, ok, single)
    \/ \E p \in Clients : BrowserNavigate(p, 1, MaxGen)
    \/ \E p \in Clients, ok \in BOOLEAN : NavResume(p, ok)
    \/ \E p \in Clients, how \in ClickHow : BrowserClick(p, 1, how)
    \/ \E p \in Clients, ok \in BOOLEAN : ClickResume(p, ok)
    \/ \E p \in Clients : BrowserPressKey(p, 1)
    \/ \E p \in Clients, ok \in BOOLEAN : KeyResume(p, ok)
    \/ \E p \in Clients : TabsCreate(p, 1, MaxGen, single)
    \/ \E p \in Clients, ok \in BOOLEAN : CreateResume(p, ok, single)
    \/ \E p \in Clients, arg \in IndexArgs : TabsClose(p, 1, arg, single)
    \/ \E p \in Clients, ok \in BOOLEAN : CloseResume(p, ok, single)

SpecHandlers == Init /\ [][NextHandlers]_vars

\* A session that hangs: client 1 works on session id 1, and once its
\* browser is open no driver call made for it comes back (a browser_tabs
\* create stays in new_page(), a browser_close stays in context.close()).
\* Client 2 works on session id 2, whose driver calls come back.
NextStuck ==
    \/ BrowserOpen(1, 1)
    \/ InitResume(1, TRUE, single)
    \/ TabsCreate(1, 1, MaxGen, single)
    \/ BrowserClose(1, 1)
    \/ BrowserNetworkRequests(2, 2)
    \/ BrowserOpen(2, 2)
    \/ InitResume(2, TRUE, single)
    \/ TabsCreate(2, 2, MaxGen, single)
    \/ CreateResume(2, TRUE, single)
    \/ \E arg \in IndexArgs : TabsClose(2, 2, arg, single)
    \/ CloseResume(2, TRUE, single)
    \/ \E arg \in IndexArgs : TabsSelect(2, 2, arg, single)
    \/ BrowserClose(2, 2)
    \/ CleanupResume(2, TRUE)

\* The event loop runs a coroutine whose awaited call has come back, and the
\* driver answers the calls made for session id 2.
SpecStuck ==
    /\ Init /\ [][NextStuck]_vars
    /\ WF_vars(InitResume(2, TRUE, single))
    /\ WF_vars(CreateResume(2, TRUE, single))
    /\ WF_vars(CloseResume(2, TRUE, single))
    /\ WF_vars(CleanupResume(2, TRUE))

\* A burst of new session ids: two more ids than the dict has room for are
\* resolved, and the eviction tasks run when the event loop gets to them.
BurstIds == 1..(MAX_SESSIONS + 2)

NextBurst ==
    \/ Tick
    \/ \E p \in Clients, sid \in BurstIds : BrowserNetworkRequests(p, sid)
    \/ \E p \in Tasks : TaskStart(p)

SpecBurst == Init /\ [][NextBurst]_vars

\* The tools that work on the current page: session id 1 is opened, the
\* tools are called on it and on session id 2, which has no page.
NextTools ==
    \/ \E p \in Clients : BrowserOpen(p, 1)
    \/ \E p \in Clients : InitResume(p, TRUE, single)
    \/ \E p \in Clients, sid \in 1..2, tool \in PageTools :
          \E path \in PageToolPaths(tool) : PageTool(p, sid, tool, path)
    \/ \E p \in Clients, res \in {"ok", "raised", "None"} : PageToolResume(p, res)
    \/ \E p \in Clients, sid \in 1..2 : BrowserHandleDialog(p, sid)
    \/ \E o \in Objs, pg \in 1..MaxPages : DialogEvent(o, pg)
    \/ \E p \in Clients : SessionCreate(p)
    \/ \E p \in Clients, onlyErrors \in BOOLEAN :
          BrowserConsoleMessages(p, 1, onlyErrors)
    \/ \E p \in Clients, sid \in 1..2 : TabsList(p, sid, single)
    \/ \E p \in Clients, ok \in BOOLEAN : ListResume(p, ok, single)
    \/ \E p \in Clients : TabsUnknown(p, 2, single)
    \/ \E p \in Tasks : TaskStart(p)
    \/ \E p \in Tasks, ok \in BOOLEAN : CleanupResume(p, ok)

SpecTools == Init /\ [][NextTools]_vars

\* Every tool, every session id, every coroutine: the server serves its
\* clients until main leaves mcp.run(), then shuts down.
NextAll ==
    \/ Tick
    \/ /\ Serving
       /\ \/ \E p \in Clients, sid \in Ids : BrowserNetworkRequests(p, sid)
          \/ \E p \in Clients, sid \in Ids, onlyErrors \in BOOLEAN :
                  BrowserConsoleMessages(p, sid, onlyErrors)
          \/ \E p \in Clients : SessionList(p)
          \/ \E p \in Clients : SessionCreate(p)
          \/ \E p \in Clients, sid \in Ids :
                  BrowserOpenWithin(p, sid, MaxRelaunch, single)
          \/ \E p \in Clients, ok \in BOOLEAN : InitResume(p, ok, single)
          \/ \E p \in Clients, sid \in Ids : BrowserClose(p, sid)
          \/ \E p \in Clients, sid \in Ids :
                  TabsCreate(p, sid, MaxRelaunch, single)
          \/ \E p \in Clients, ok \in BOOLEAN : CreateResume(p, ok, single)
          \/ \E p \in Clients, sid \in Ids, arg \in IndexArgs :
                  TabsClose(p, sid, arg, single)
          \/ \E p \in Clients, ok \in BOOLEAN : CloseResume(p, ok, single)
          \/ \E p \in Clients, sid \in Ids, arg \in IndexArgs :
                  TabsSelect(p, sid, arg, single)
          \/ \E p \in Clients, sid \in Ids : TabsList(p, sid, single)
          \/ \E p \in Clients, ok \in BOOLEAN : ListResume(p, ok, single)
          \/ \E p \in Clients, sid \in Ids : TabsUnknown(p, sid, single)
          \/ \E p \in Clients, sid \in Ids :
                  BrowserNavigate(p, sid, MaxRelaunch)
          \/ \E p \in Clients, ok \in BOOLEAN : NavResume(p, ok)
          \/ \E p \in Clients, sid \in Ids, how \in ClickHow : BrowserClick(p, sid, how)
          \/ \E p \in Clients, ok \in BOOLEAN : ClickResume(p, ok)
          \/ \E p \in Clients, sid \in Ids : BrowserPressKey(p, sid)
          \/ \E p \in Clients, ok \in BOOLEAN : KeyResume(p, ok)
          \/ \E p \in Clients, sid \in Ids : BrowserHandleDialog(p, sid)
          \/ \E p \in Clients, sid \in Ids, tool \in PageTools :
                  \E path \in PageToolPaths(tool) : PageTool(p, sid, tool, path)
          \/ \E p \in Clients, res \in {"ok", "raised", "None"} : PageToolResume(p, res)
    \/ Serving /\ ReaperSweep
    \/ Serving /\ \E ok \in BOOLEAN : ReaperResume(ok)
    \/ \E p \in Tasks : TaskStart(p)
    \/ \E p \in Procs, ok \in BOOLEAN : CleanupResume(p, ok)
    \/ \E o \in Objs, b \in Gens : BrowserCrash(o, b)
    \/ \E o \in Objs, b \in Gens : HandleBrowserClose(o, b)
    \/ \E o \in Objs, pg \in 1..MaxPages, kind \in EventKinds \cup {"error"} :
          PageEvent(o, pg, kind)
    \/ \E o \in Objs, pg \in 1..MaxPages : DialogEvent(o, pg)
    \/ Shutdown
    \/ CancelAllTasks
    \/ \E p \in Tasks \cup {Reaper} : Cancelled(p)
    \/ \E ok \in BOOLEAN : ShutdownResume(ok)

SpecAll == Init /\ [][NextAll]_vars

----------------------------------------------------------------------------
(* The claims                                                              *)

Resident(o) == \E i \in 1..Len(sessions) : sessions[i].obj = o

LastActivity(S, H, i) == H[S[i].obj].last_activity

\* a call of browser_network_requests, that is of get_session, has returned
Resolved == out.pc = "done" /\ out.op = "network_requests"

\* C1: after every get_session call returns, the sessions dict holds at most
\* MAX_SESSIONS entries.
C1_WithinCapacity == Resolved => Len(sessions) <= MAX_SESSIONS

\* C2: the session get_session selects for eviction has the smallest
\* last_activity of the resident sessions and is, among those with that
\* last_activity, the one inserted first; and once its eviction task has
\* started it is no longer in the dict.
C2_EvictsOldest ==
    [][(Len(queue') > Len(queue) =>
          LET v == queue'[Len(queue')]
              k == PosOf(sessions, v) IN
          /\ v \in Keys(sessions)
          /\ \A i \in 1..Len(sessions) :
               \/ LastActivity(sessions, heap, k) < LastActivity(sessions, heap, i)
               \/ /\ LastActivity(sessions, heap, k) = LastActivity(sessions, heap, i)
                  /\ k <= i)
       /\ (Len(queue') < Len(queue) => Head(queue) \notin Keys(sessions'))]_vars

\* C2 witness: the victim chosen is the second entry of the dict, because the
\* first one was used after it.
C2_Witness ==
    /\ Len(queue) = 1 /\ Len(sessions) = MAX_SESSIONS + 1
    /\ queue[1] = sessions[2].sid
    /\ LastActivity(sessions, heap, 1) > LastActivity(sessions, heap, 2)
    /\ Resolved /\ out.sid = sessions[Len(sessions)].sid

\* C3: the capacity eviction is over before get_session installs the new
\* entry: a step that selects a victim and installs an entry leaves the dict
\* without the victim.
C3_EvictsBeforeInstall ==
    [][Len(queue') > Len(queue) /\ Len(sessions') > Len(sessions)
          => queue'[Len(queue')] \notin Keys(sessions')]_vars

Live(d) == d.pwLive \cup d.brLive \cup d.ctxLive

\* C4: when an entry leaves the dict, the playwright instance, the browser
\* and the context of its session have been released.
C4_ReleasedWhenRemoved ==
    [][\A o \in Objs : Resident(o) /\ ~Resident(o)' => Live(drv'[o]) = {}]_vars

\* the outcome of a cleanup_session that a client or a task ran
CleanedUp == out.pc = "done" /\ out.op \in {"close", "evict"}

\* C5: cleanup_session running twice at once for one session id raises in
\* neither run and closes each handle of the session at most once.
C5_RaceIsNoOp ==
    /\ CleanedUp => out.raised = "none"
    /\ \A o \in Objs, g \in Gens :
         drv[o].ctxCalls[g] <= 1 /\ drv[o].brCalls[g] <= 1
                                 /\ drv[o].pwCalls[g] <= 1

\* C6: close is idempotent: when browser_close returns, the session id is not
\* in the dict, and a browser_close of an id that is not in the dict changes
\* nothing and raises nothing.
C6_CloseIdempotent ==
    [][out'.pc = "done" /\ out'.op = "close" =>
         /\ out'.sid \notin Keys(sessions')
         /\ (~out'.found =>
               /\ out'.raised = "none" /\ out'.result = "closed"
               /\ <<sessions, heap, drv, queue, flow>>'
                    = <<sessions, heap, drv, queue, flow>>)]_vars

\* C6 witness: a browser_close that found no entry for its id has returned
\* without raising, as the third call of the run (for instance after a call
\* that created the entry and a first browser_close that removed it), and
\* nothing of the session is left.
C6_Witness ==
    /\ out.pc = "done" /\ out.op = "close" /\ ~out.found
    /\ out.raised = "none" /\ calls = 3 /\ sessions = <<>>
    /\ \A o \in Objs : heap[o] = Blank /\ drv[o] = DrvInit

\* C7: the release steps run in the order context, browser, playwright
\* instance, and a step follows even if the one before it failed: a teardown
\* that comes back from context.close() goes on to browser.close(), and one
\* that comes back from browser.close() goes on to playwright_instance.stop().
C7_EveryStepAttempted ==
    [][\A p \in Procs : flow'[p] # flow[p] =>
         /\ (flow[p].pc = "cs_ctx" /\ heap[flow[p].obj].browser # None
               => flow'[p].pc = "cs_br")
         /\ (flow[p].pc = "cs_br" /\ heap[flow[p].obj].playwright_instance # None
               => flow'[p].pc = "cs_pw")]_vars

\* C8: when a release step fails, cleanup_session prints the failure, does
\* not raise it to its caller, and the session id is no longer in the dict.
C8_FailureLoggedEntryRemoved ==
    [][\A p \in Clients \cup Tasks :
         flow[p].pc \in CsPcs /\ flow'[p].pc = "idle" /\ out'.failed =>
             /\ out'.printed
             /\ out'.raised # "DriverError"
             /\ out'.sid \notin Keys(sessions')]_vars

\* C8 witness: an eviction task whose release step failed has ended.
C8_Witness ==
    /\ out.pc = "done" /\ out.op = "evict" /\ out.failed /\ out.printed
    /\ out.raised = "none" /\ out.sid \notin Keys(sessions)

Quiet == \A p \in Clients \cup Tasks : flow[p].pc = "idle"

FullyClosed(s) == s.browser = None /\ s.pages = <<>>

FullyOpen(s) == s.browser # None /\ s.pages # <<>>

\* C9: when no operation is running, every session in the dict is fully
\* closed or fully open.
C9_ClosedOrOpen ==
    Quiet => \A i \in 1..Len(sessions) :
                 \/ FullyClosed(heap[sessions[i].obj])
                 \/ FullyOpen(heap[sessions[i].obj])

\* C10: in every state of every session object, the cursor is inside the
\* tab list when the tab list is not empty.
C10_CursorInRange ==
    \A o \in Objs : heap[o].pages # <<>> =>
        0 <= heap[o].current_page_index
        /\ heap[o].current_page_index < Len(heap[o].pages)

\* C10 witness: the last tab of three was closed with index=None and the
\* cursor is on the tab before it.
C10_Witness ==
    /\ out.pc = "done" /\ out.op = "tabs_close" /\ out.result = "closed_tab"
    /\ out.index = 2
    /\ heap[ObjOf(sessions, 1)].pages = <<1, 2>>
    /\ heap[ObjOf(sessions, 1)].current_page_index = 1

\* C11: two browser_tabs calls on one session never interleave their edits of
\* the tab list: a close whose page.close() came back does not fail on its
\* index, and the page it pops from the list is the page it closed.
C11_TabEditsSerialized ==
    [][\A p \in Clients :
         (flow[p].pc = "tk_close" /\ flow'[p].pc = "idle" /\ ~out'.failed)
            => (/\ out'.raised = "none"
                /\ heap[flow[p].obj].pages[flow[p].index + 1] = flow[p].pg)]_vars

\* the tools whose calls C12 is about
LifecycleOps == {"open", "close", "tabs_create", "tabs_close", "tabs_select"}

\* the session ids of the tool calls that ran in the step: of the call that
\* ended in it, or of the client coroutine that moved in it
ActingSids ==
    IF out'.pc = "done" /\ out'.op \in LifecycleOps THEN {out'.sid}
    ELSE {flow'[p].sid : p \in {q \in Clients : flow'[q] # flow[q]}}

\* C12: a step of browser_open, browser_close or browser_tabs called with
\* session id A leaves every other resident session as it was: its entry in
\* the dict, every field of its session object (pages, current_page_index,
\* both buffers, the handles) and the driver's handles of that object.
C12_SessionsIsolated ==
    [][\A a \in ActingSids : \A i \in 1..Len(sessions) :
          sessions[i].sid # a =>
              (/\ \E j \in 1..Len(sessions') : sessions'[j] = sessions[i]
               /\ heap'[sessions[i].obj] = heap[sessions[i].obj]
               /\ drv'[sessions[i].obj] = drv[sessions[i].obj])]_vars

\* C12 witness: two sessions are open, each with tabs of its own, and a
\* browser_tabs call on the second one has just closed one of its tabs.
C12_Witness ==
    /\ Len(sessions) = 2
    /\ heap[sessions[1].obj].pages # <<>>
    /\ heap[sessions[2].obj].browser # None
    /\ out.pc = "done" /\ out.op = "tabs_close" /\ out.result = "closed_tab"
    /\ out.sid = sessions[2].sid

\* the entries of both buffers of a session object
Entries(s) ==
    {s.console_messages[i] : i \in 1..Len(s.console_messages)}
        \cup {s.network_requests[i] : i \in 1..Len(s.network_requests)}

\* C13: every entry in the buffers of a session object comes from a page of
\* that object, and every page in the tab list of a session object has the
\* listeners that append to that object registered on it.
C13_EventsStayInSession ==
    \A o \in Objs :
        /\ \A e \in Entries(heap[o]) : e[1] = o
        /\ \A i \in 1..Len(heap[o].pages) :
              <<heap[o].pages[i], o>> \in drv[o].lst

\* C13 witness: two sessions are resident; the second one has two tabs, and
\* its tab made by browser_tabs create has put an entry in each of its
\* buffers while the first session's page has put one in its own.
C13_Witness ==
    /\ Len(sessions) = 2
    /\ LET a == sessions[1].obj
           b == sessions[2].obj IN
        /\ Len(heap[b].pages) = 2
        /\ <<b, 2>> \in Entries(heap[a]) \cup Entries(heap[b])
        /\ heap[b].console_messages # <<>> /\ heap[b].network_requests # <<>>
        /\ Entries(heap[a]) # {}

\* C18: when a fresh open of a session completes, both buffers of the session
\* are empty.
C18_BuffersEmptyAfterOpen ==
    [][\A p \in Clients :
         (flow[p].pc = "ib_s2" /\ flow[p].op = "open"
             /\ out'.pc = "done" /\ out'.result = "opened")
            => (/\ heap'[flow[p].obj].console_messages = <<>>
                /\ heap'[flow[p].obj].network_requests = <<>>)]_vars

\* the session ids whose idle time exceeds SESSION_TIMEOUT now
IdleIds ==
    {sessions[i].sid : i \in {j \in 1..Len(sessions) :
        now - heap[sessions[j].obj].last_activity > SESSION_TIMEOUT}}

\* the session ids a sweep that is under way has still to finish
SweepLeft(f) ==
    IF f.pc \in CsPcs THEN {f.sid} \cup {f.todo[i] : i \in 1..Len(f.todo)}
    ELSE {}

\* the reaper ran in the step
ReaperStep == flow'[Reaper] # flow[Reaper] \/ out'.pc = "swept"

\* C14: a sweep takes on exactly the sessions whose idle time exceeds
\* SESSION_TIMEOUT when it starts; each of them is absent from the dict when
\* the sweep is through with it, when the sweep is over (back in its sleep,
\* or ended by an exception) none of them is left to do, and no step of the
\* sweep removes any other session.
C14_SweepRemovesIdleOnly ==
    [][ReaperStep =>
         LET before == IF flow[Reaper].pc = "sleep" THEN IdleIds
                       ELSE SweepLeft(flow[Reaper])
             after == SweepLeft(flow'[Reaper]) IN
         /\ after \subseteq before
         /\ \A x \in before \ after : x \notin Keys(sessions')
         /\ \A x \in Keys(sessions) \ (before \ after) : x \in Keys(sessions')]_vars

\* C15: session_cleanup_task is never ended by an exception of a teardown.
C15_ReaperKeepsRunning == flow[Reaper].pc # "dead"

\* a browser_tabs create or close is suspended at the driver, in a call of
\* its own or in one of the browser_open it awaits, on a session object that
\* is no longer in the dict
InFlightOnRemoved(p) ==
    /\ flow[p].op \in {"tabs_create", "tabs_close"} /\ flow[p].pc # "idle"
    /\ ~Resident(flow[p].obj)

\* C16: with a browser_tabs call suspended at the driver, cleanup_session of
\* the same session ends without raising and calls close() or stop() on each
\* handle at most once; and every step the suspended call takes after the
\* session was removed leaves the dict and every session in it as they were,
\* and when the call ends it ends with the exception of its driver call.
C16_TeardownSafeInFlight ==
    [][/\ (out'.pc = "done" /\ out'.op = "close") => out'.raised = "none"
       /\ \A o \in Objs, g \in Gens :
             /\ drv'[o].ctxCalls[g] <= 1
             /\ drv'[o].brCalls[g] <= 1
             /\ drv'[o].pwCalls[g] <= 1
       /\ \A p \in Clients :
             (InFlightOnRemoved(p) /\ flow'[p] # flow[p]) =>
                 (/\ sessions' = sessions
                  /\ \A o \in Objs : Resident(o) =>
                        heap'[o] = heap[o] /\ drv'[o] = drv[o]
                  /\ flow'[p].pc = "idle" =>
                        out'.pc = "done" /\ out'.raised = "DriverError")]_vars

\* browser_open was called with session id sid in the step: it returned at
\* once, or it is suspended in its first driver call
OpenCalled(sid) ==
    \/ out'.pc = "done" /\ out'.op = "open" /\ out'.sid = sid /\ calls' > calls
    \/ \E p \in Clients : /\ flow[p].pc = "idle"
                          /\ flow'[p].op = "open" /\ flow'[p].sid = sid

\* the session in the dict under sid has a browser
IsOpen(sid) ==
    sid \in Keys(sessions) /\ heap[ObjOf(sessions, sid)].browser # None

\* C17: browser_open on a session that is open reports that the browser is
\* already open and starts nothing: the dict, the session's pages, cursor,
\* buffers and handles, the driver and every coroutine are as before (the
\* call only refreshes last_activity).
C17_OpenIdempotent ==
    [][\A sid \in Ids : (OpenCalled(sid) /\ IsOpen(sid)) =>
         (/\ out'.pc = "done" /\ out'.result = "already_open"
          /\ out'.raised = "none"
          /\ sessions' = sessions /\ drv' = drv /\ flow' = flow
          /\ queue' = queue
          /\ heap' = [heap EXCEPT ![ObjOf(sessions, sid)].last_activity = now])]_vars

\* C17 witness: browser_open has reported "already open" for a session with
\* two tabs whose cursor is on the second.
C17_Witness ==
    /\ out.pc = "done" /\ out.op = "open" /\ out.result = "already_open"
    /\ out.sid \in Keys(sessions)
    /\ Len(heap[ObjOf(sessions, out.sid)].pages) = 2
    /\ heap[ObjOf(sessions, out.sid)].current_page_index = 1

\* C19: when browser_close of an open session completes, the session object
\* it closed has an empty tab list and empty buffers, its cursor is 0, its
\* handles are None, and the session id is not a key of the dict.
C19_ClosedSessionCleared ==
    [][\A p \in Clients :
         (flow[p].op = "close" /\ flow[p].pc \in CsPcs /\ flow'[p].pc = "idle")
            => LET s == heap'[flow[p].obj] IN
               /\ s.pages = <<>>
               /\ s.console_messages = <<>> /\ s.network_requests = <<>>
               /\ s.current_page_index = 0
               /\ s.browser = None /\ s.context = None
               /\ s.playwright_instance = None
               /\ flow[p].sid \notin Keys(sessions')]_vars

\* C20: a lifecycle call on a state that is already satisfied is reported as
\* such and is no failure: a browser_open that reports "already open" does
\* not raise, and a browser_close that found no session under its id does not
\* raise and returns the already-closed result, not the result of a close
\* that removed a session.
C20_AlreadySatisfiedReported ==
    /\ (out.pc = "done" /\ out.op = "open" /\ out.result = "already_open")
          => out.raised = "none"
    /\ (out.pc = "done" /\ out.op = "close" /\ ~out.found)
          => (out.raised = "none" /\ out.result = "already_closed")

\* a call of session_list has returned in the step
Listed == out'.pc = "done" /\ out'.op = "session_list"

\* C21: session_list is read-only and complete: the step in which it runs
\* leaves the dict, every field of every session object (last_activity
\* included), the driver, the task queue and the other coroutines as they
\* were, and it reports one summary for every session in the dict, in dict
\* order: the id, whether a browser is set, the number of pages, the texts of
\* created_at and last_activity and the idle time since last_activity.
C21_SessionListReadOnly ==
    [][Listed =>
         (/\ sessions' = sessions /\ heap' = heap /\ drv' = drv
          /\ queue' = queue /\ flow' = flow /\ out'.raised = "none"
          /\ Len(out'.report) = Len(sessions)
          /\ \A i \in 1..Len(sessions) :
                LET s == heap[sessions[i].obj]
                    e == out'.report[i] IN
                /\ e.session_id = sessions[i].sid
                /\ e.browser_open = (s.browser # None)
                /\ e.num_pages = Len(s.pages)
                /\ e.created_at = isoformat(s.created_at)
                /\ e.last_activity = isoformat(s.last_activity)
                /\ e.inactive_seconds = now - s.last_activity)]_vars

\* C21 witness: session_list has reported two sessions: the first one open
\* with one page, used again after it was created and idle since; the second
\* one without a browser.
C21_Witness ==
    /\ out.pc = "done" /\ out.op = "session_list" /\ Len(out.report) = 2
    /\ out.report[1].browser_open /\ out.report[1].num_pages = 1
    /\ out.report[1].created_at # out.report[1].last_activity
    /\ out.report[1].inactive_seconds = 1
    /\ ~out.report[2].browser_open /\ out.report[2].num_pages = 0
    /\ heap[sessions[1].obj].last_activity = now - 1

\* C22: when a get_session call returns, the last_activity of the session it
\* returned is the current time; from one state to the next the last_activity
\* of a session object does not decrease; and it is never less than the
\* object's created_at.
C22_ActivityAdvances ==
    [][/\ (\A o \in Objs : (heap[o] # Blank /\ heap'[o] # Blank) =>
              heap'[o].last_activity >= heap[o].last_activity)
       /\ (\A o \in Objs : heap'[o] # Blank =>
              heap'[o].last_activity >= heap'[o].created_at)
       /\ ((out'.pc = "done" /\ out'.op = "network_requests") =>
              (/\ out'.sid \in Keys(sessions')
               /\ heap'[ObjOf(sessions', out'.sid)].last_activity = now'))]_vars

\* C22 witness: get_session has returned a session at time 2 that was created
\* at time 0, and an older session is resident beside it.
C22_Witness ==
    /\ Resolved /\ now = 2 /\ out.sid \in Keys(sessions)
    /\ heap[ObjOf(sessions, out.sid)].created_at = 0
    /\ heap[ObjOf(sessions, out.sid)].last_activity = 2
    /\ \E i \in 1..Len(sessions) : LastActivity(sessions, heap, i) < 2

\* the pages in the tab list of a session object
PagesOf(s) == {s.pages[i] : i \in 1..Len(s.pages)}

\* C23: when browser_tabs create succeeds (after opening the session, if its
\* browser was not open), the tab list of its session is the list it was
\* before with one page added at the end, that page was not in the list, and
\* current_page_index is the index of that page, len(pages) - 1.
C23_CreateAppends ==
    [][\A p \in Clients :
         (flow[p].pc = "tc_page" /\ flow'[p].pc = "idle"
             /\ out'.result = "created") =>
            LET o == flow[p].obj IN
            (/\ heap'[o].pages = Append(heap[o].pages, flow[p].pg)
             /\ flow[p].pg \notin PagesOf(heap[o])
             /\ heap'[o].current_page_index = Len(heap'[o].pages) - 1)]_vars

\* C23 witness: the first call of the run was a browser_tabs create; it opened
\* the session, which made page 1, and then added page 2 behind it.
C23_Witness ==
    /\ out.pc = "done" /\ out.op = "tabs_create" /\ out.result = "created"
    /\ calls = 1
    /\ heap[ObjOf(sessions, 1)].pages = <<1, 2>>
    /\ heap[ObjOf(sessions, 1)].current_page_index = 1

\* the tool call a client made in the step (calls' > calls): it returned in
\* the step, or it is suspended in its first driver call
Started ==
    IF out'.pc = "done" THEN out'
    ELSE flow'[CHOOSE p \in Clients : flow'[p] # flow[p]]

\* the session a call with session id sid finds: the one in the dict, or the
\* new one get_session makes
FoundSession(sid) ==
    IF sid \in Keys(sessions) THEN heap[ObjOf(sessions, sid)]
    ELSE BrowserSession(sid, now)

\* C24: a browser_tabs close or select whose index (for close with no index:
\* the cursor) is not in 0 <= index < len(pages) returns the invalid-index
\* text in the same step, raises nothing, makes no driver call, and leaves the
\* tab list and the cursor of the session as they were; a select whose index
\* is in range returns the selected text and changes current_page_index to
\* the index and nothing else of the session (but last_activity, which every
\* get_session sets), of the dict, the task queue or the driver.
C24_InvalidIndexRefused ==
    [][(/\ calls' > calls
        /\ Started.op \in {"tabs_close", "tabs_select"}
        /\ Started.result # "index_required") =>
          LET c == Started
              before == FoundSession(c.sid)
              after == heap'[ObjOf(sessions', c.sid)] IN
          IF 0 <= c.index /\ c.index < Len(before.pages)
          THEN c.op = "tabs_select" =>
                 (/\ c.pc = "done" /\ c.result = "selected"
                  /\ after = [before EXCEPT !.current_page_index = c.index,
                                            !.last_activity = now]
                  /\ sessions' = sessions /\ queue' = queue /\ drv' = drv)
          ELSE (/\ c.pc = "done" /\ c.result = "invalid_index"
                /\ c.raised = "none" /\ drv' = drv
                /\ after.pages = before.pages
                /\ after.current_page_index = before.current_page_index)]_vars

\* C24 witness: a select with index 2 on a session with two tabs (indices 0
\* and 1) was refused; the cursor is still on the second tab.
C24_Witness ==
    /\ out.pc = "done" /\ out.op = "tabs_select" /\ out.index = 2
    /\ out.result = "invalid_index"
    /\ heap[ObjOf(sessions, 1)].pages = <<1, 2>>
    /\ heap[ObjOf(sessions, 1)].current_page_index = 1

\* C25: with three tabs and the cursor on the third (index 2), a close of the
\* tab at index 1 that succeeds leaves the former first and third tabs, in
\* that order, and the cursor is 1: on the tab that was at index 2.
C25_CloseMiddleKeepsActive ==
    [][\A p \in Clients :
         (/\ flow[p].pc = "tk_close" /\ flow[p].index = 1
          /\ Len(heap[flow[p].obj].pages) = 3
          /\ heap[flow[p].obj].current_page_index = 2
          /\ flow'[p].pc = "idle" /\ out'.result = "closed_tab") =>
            LET old == heap[flow[p].obj]
                new == heap'[flow[p].obj] IN
            (/\ new.pages = <<old.pages[1], old.pages[3]>>
             /\ new.current_page_index = 1
             /\ get_current_page(new) = old.pages[3])]_vars

\* C25 witness: the tab at index 1 of three was closed; tabs 1 and 3 are
\* left and the cursor is on tab 3.
C25_Witness ==
    /\ out.pc = "done" /\ out.op = "tabs_close" /\ out.result = "closed_tab"
    /\ out.index = 1
    /\ heap[ObjOf(sessions, 1)].pages = <<1, 3>>
    /\ heap[ObjOf(sessions, 1)].current_page_index = 1

\* _initialize_browser has run once on the session object: its handles are
\* those of one open, not of two opens that ran together
OpenedOnce(o) == drv[o].npw = 1

\* C26: a close that succeeds on a session with one tab leaves the tab list
\* empty and the cursor 0, the browser, the context and the playwright
\* instance of the session as they were (set, and running at the driver),
\* the session in the dict and no teardown scheduled; and a create that
\* succeeds on a session that was opened once and has an empty tab list
\* leaves one page, at index 0 with the cursor on it, made by the context
\* the session had all along.
C26_LastTabClosedStaysOpen ==
    [][\A p \in Clients :
         LET o == flow[p].obj
             old == heap[o]
             new == heap'[o] IN
         /\ (/\ flow[p].pc = "tk_close" /\ Len(old.pages) = 1
             /\ flow'[p].pc = "idle" /\ out'.result = "closed_tab") =>
               (/\ new.pages = <<>> /\ new.current_page_index = 0
                /\ new.browser = old.browser /\ new.browser # None
                /\ new.context = old.context /\ new.context # None
                /\ new.playwright_instance = old.playwright_instance
                /\ new.browser \in drv'[o].brLive
                /\ new.context \in drv'[o].ctxLive
                /\ sessions' = sessions /\ Resident(o) /\ queue' = queue)
         /\ (/\ flow[p].pc = "tc_page" /\ old.pages = <<>> /\ OpenedOnce(o)
             /\ flow'[p].pc = "idle" /\ out'.result = "created") =>
               (/\ new.pages = <<flow[p].pg>> /\ new.current_page_index = 0
                /\ new.context = old.context
                /\ drv'[o].pgCtx[flow[p].pg] = old.context
                /\ old.context \in drv'[o].ctxLive)]_vars

\* C26 witness: page 1, the only tab, was closed, and a browser_tabs create
\* after it has put page 2 at index 0, made by the session's context.
C26_Witness ==
    /\ out.pc = "done" /\ out.op = "tabs_create" /\ out.result = "created"
    /\ calls = 3
    /\ LET o == ObjOf(sessions, 1) IN
        /\ heap[o].pages = <<2>> /\ heap[o].current_page_index = 0
        /\ 1 \notin drv[o].pgOpen
        /\ drv[o].pgCtx[2] = heap[o].context /\ drv[o].pgCtx[1] = heap[o].context

\* C27: get_current_page returns pages[current_page_index] when the tab list
\* is not empty and the cursor is in 0 <= cursor < len(pages), returns None
\* when the tab list is empty, and raises for no tab list and no cursor.
C27_CurrentPageOrNone ==
    (out.pc = "done" /\ out.op = "get_current_page") =>
        LET s == heap[ObjOf(sessions, out.sid)] IN
        /\ out.raised = "none"
        /\ (s.pages # <<>> /\ 0 <= s.current_page_index
                           /\ s.current_page_index < Len(s.pages))
              => out.pg = s.pages[s.current_page_index + 1]
        /\ s.pages = <<>> => out.pg = None

\* C27 witness: the page returned is the third of three tabs, and it is not
\* the page with the number of the cursor.
C27_Witness ==
    /\ out.pc = "done" /\ out.op = "get_current_page" /\ out.pg = 1
    /\ heap[1].pages = <<3, 2, 1>> /\ heap[1].current_page_index = 2

\* the tools C28 names
HandlerOps ==
    {"open", "navigate", "click", "press_key", "tabs_create", "tabs_close"}

\* the handles of a session are all set or all None, and a session without a
\* browser has no tabs
HandlesConsistent(s) ==
    /\ (s.browser = None) = (s.context = None)
    /\ (s.browser = None) = (s.playwright_instance = None)
    /\ s.browser = None => s.pages = <<>>

\* C28: a tool call in which a driver call failed ends by returning a result
\* that describes the failure, not by raising; and the session it worked on,
\* if it is in the dict, is left with consistent handles.
C28_FailuresReturned ==
    (out.pc = "done" /\ out.op \in HandlerOps /\ out.failed) =>
        /\ out.raised = "none" /\ out.result # "none"
        /\ out.sid \in Keys(sessions) =>
               HandlesConsistent(heap[ObjOf(sessions, out.sid)])

\* a driver call or a teardown of session id 1 is suspended and does not
\* come back
StuckOnA == flow[1].pc \in CsPcs \cup {"tc_page"}

\* client 2 can make a call: it has none in flight, and the bounds of the
\* model leave room for one
CanCall == flow[2].pc = "idle" /\ calls < MaxCalls /\ CanResolve(2)

\* C29: while a driver call or a teardown of session id 1 is suspended, every
\* call on session id 2 can start (get_session, browser_open, browser_tabs
\* select and close, browser_close are enabled), and a call on session id 2
\* that is in flight comes to its end, without raising.
C29_StuckSessionBlocksOnlyItself ==
    /\ [](StuckOnA /\ CanCall =>
            /\ ENABLED BrowserNetworkRequests(2, 2)
            /\ ENABLED BrowserOpen(2, 2)
            /\ ENABLED TabsSelect(2, 2, <<TRUE, 0>>, single)
            /\ ENABLED TabsClose(2, 2, <<FALSE, 0>>, single)
            /\ ENABLED BrowserClose(2, 2))
    /\ []((StuckOnA /\ flow[2].pc # "idle") =>
            <>(flow[2].pc = "idle" /\ out.pc = "done" /\ out.sid = 2
                 /\ out.raised = "none"))

\* C29 witness: browser_close of session id 1 is suspended in
\* context.close(), and a browser_tabs create on session id 2, the third call
\* of the run, has opened session 2 and added a tab to it.
C29_Witness ==
    /\ flow[1].pc = "cs_ctx" /\ calls = 3
    /\ out.pc = "done" /\ out.op = "tabs_create" /\ out.sid = 2
    /\ out.result = "created"
    /\ Len(heap[ObjOf(sessions, 2)].pages) = 2

\* C30: the eviction tasks that are scheduled and have not started are for
\* different sessions, one for each get_session call that found the dict
\* full; and when no eviction task is scheduled or running, the dict holds
\* at most MAX_SESSIONS entries.
C30_BurstEvictsDistinct ==
    /\ \A i, j \in 1..Len(queue) : queue[i] = queue[j] => i = j
    /\ (queue = <<>> /\ \A p \in Tasks : flow[p].pc = "idle")
          => Len(sessions) <= MAX_SESSIONS

\* C31: a step of cleanup_session that resumes from a driver close call
\* removes from the dict no session other than the one it is tearing down:
\* an entry under its session id that holds another session object (one that
\* get_session made after the first was removed) is still there after it.
C31_RemovesOnlyItsOwn ==
    [][\A p \in Procs :
         (flow[p].pc \in CsPcs /\ flow'[p] # flow[p]) =>
            (\A i \in 1..Len(sessions) :
                (sessions[i].sid = flow[p].sid /\ sessions[i].obj # flow[p].obj)
                   => (\E j \in 1..Len(sessions') : sessions'[j] = sessions[i]))]_vars

\* C32: no playwright instance, browser or context is left running without
\* a close() or stop() ever called on it once its session object is out of
\* the dict and no coroutine works on that object any more.
C32_NoOrphanHandles ==
    \A o \in Objs :
        (~Resident(o) /\ \A p \in Procs : flow[p].obj # o) =>
            /\ \A g \in drv[o].pwLive : drv[o].pwCalls[g] > 0
            /\ \A g \in drv[o].brLive : drv[o].brCalls[g] > 0
            /\ \A g \in drv[o].ctxLive : drv[o].ctxCalls[g] > 0

\* C33: opens of one session do not run into each other: a session object
\* has at most one browser running, and a browser_open that finds the browser
\* set (and reports "already open") finds the context set as well.
C33_OpensSerialized ==
    /\ \A o \in Objs : Cardinality(drv[o].brLive) <= 1
    /\ (out.pc = "done" /\ out.op = "open" /\ out.result = "already_open"
           /\ out.sid \in Keys(sessions))
          => heap[ObjOf(sessions, out.sid)].context # None

\* the sessions on which the reaper started cleanup_session in the step: the
\* ones it removed and the one whose teardown it is suspended in
ReaperBegan ==
    ((Keys(sessions) \ Keys(sessions'))
        \cup (IF flow'[Reaper].pc \in CsPcs THEN {flow'[Reaper].sid} ELSE {}))
       \ (IF flow[Reaper].pc \in CsPcs THEN {flow[Reaper].sid} ELSE {})

\* C34: when cleanup_session begins for a session, the session still is what
\* it was selected as: a session the reaper starts on has been idle for more
\* than SESSION_TIMEOUT at that moment, and a session an eviction task starts
\* on has the smallest last_activity of the sessions in the dict.
C34_TeardownStillDue ==
    [][/\ (ReaperStep =>
              \A x \in ReaperBegan \cap Keys(sessions) :
                 now - heap[ObjOf(sessions, x)].last_activity > SESSION_TIMEOUT)
       /\ ((Len(queue') < Len(queue) /\ Head(queue) \in Keys(sessions)) =>
              \A i \in 1..Len(sessions) :
                 heap[ObjOf(sessions, Head(queue))].last_activity
                    <= LastActivity(sessions, heap, i))]_vars

\* C35: a close that succeeds on a tab other than the active one leaves the
\* cursor on the page it was on before the close.
C35_CloseOtherKeepsActivePage ==
    [][\A p \in Clients :
         LET old == heap[flow[p].obj]
             new == heap'[flow[p].obj] IN
         (/\ flow[p].pc = "tk_close"
          /\ flow'[p].pc = "idle" /\ out'.result = "closed_tab"
          /\ flow[p].index # old.current_page_index
          /\ get_current_page(old) # None) =>
            get_current_page(new) = get_current_page(old)]_vars


\* C36: browser_navigate on a resident session never dereferences a missing
\* page: no browser_navigate call ends with the AttributeError of calling
\* goto on the None that get_current_page returns for an empty tab list.
C36_NavigateNeverOnMissingPage ==
    (out.pc = "done" /\ out.op = "navigate") => out.raised # "AttributeError"


\* C37: get_session for a session id that is in the dict changes nothing but
\* the last_activity of that session: the dict, the scheduled teardowns, the
\* driver and every other session object stay as they were, and the object
\* the id maps to is the same, also when the dict is full.
C37_ResidentLookupOnlyTouches ==
    [][(out'.pc = "done" /\ out'.op = "network_requests"
           /\ out'.sid \in Keys(sessions)) =>
          (LET o == ObjOf(sessions, out'.sid) IN
           /\ sessions' = sessions
           /\ queue' = queue
           /\ drv' = drv
           /\ \A p \in Procs : flow'[p] = flow[p]
           /\ heap' = [heap EXCEPT ![o].last_activity = now])]_vars

\* C37 witness: get_session has returned, at time 2, a session created
\* earlier, with the dict full, no teardown scheduled and none running.
C37_Witness ==
    /\ Resolved /\ now = 2 /\ out.sid \in Keys(sessions)
    /\ Len(sessions) = MAX_SESSIONS
    /\ heap[ObjOf(sessions, out.sid)].created_at < 2
    /\ heap[ObjOf(sessions, out.sid)].last_activity = 2
    /\ queue = <<>>
    /\ \A p \in Procs : flow[p].pc \notin CsPcs


\* the browsers of session object o whose "disconnected" event the callback
\* is given in this step
Delivered(o) == drv[o].disc \ drv'[o].disc

\* the state handle_browser_close leaves a session object in
ResetState(s) ==
    /\ s.browser = None /\ s.context = None /\ s.playwright_instance = None
    /\ s.pages = <<>> /\ s.console_messages = <<>> /\ s.network_requests = <<>>
    /\ s.current_page_index = 0

\* C38: when the "disconnected" event of a session's browser is delivered,
\* the session is left in the fully closed state and stays in the dict, and
\* a browser_open that follows on the same id is not answered "already open";
\* the event of an earlier browser leaves the state of a browser opened later
\* on the same session as it is.
C38_DisconnectResetsOwnBrowser ==
    [][/\ (\A o \in Objs : \A b \in Delivered(o) :
              /\ (Resident(o) => Resident(o)')
              /\ (heap[o].browser \in {b, None} => ResetState(heap'[o]))
              /\ (heap[o].browser \notin {b, None} => heap'[o] = heap[o]))
       /\ ((out'.pc = "done" /\ out'.op = "open" /\ calls' > calls
               /\ out'.result = "already_open" /\ out'.sid \in Keys(sessions))
              => heap[ObjOf(sessions, out'.sid)].browser # None)]_vars


\* the session in the dict under sid and the globals of server.py hold the
\* same tab list and the same cursor
SameTabs(sid) ==
    LET s == heap[ObjOf(sessions, sid)] IN
    /\ s.pages = single.pages
    /\ s.current_page_index = single.current_page_index

\* the text the browser_tabs call of this server that ended in the step
\* returned (<<>> if it raised)
SessionText ==
    CASE out.result = "created" ->
           <<"created", heap[ObjOf(sessions, out.sid)].current_page_index>>
      [] out.result \in {"closed_tab", "invalid_index", "selected"} ->
           <<out.result, out.index>>
      [] out.result = "listed" -> <<"listed", out.report>>
      [] out.result = "none" -> <<>>
      [] OTHER -> <<out.result>>

\* C39: with one session id and the calls made one after the other, after
\* every browser_open and browser_tabs call made with the same arguments on
\* both servers, the session's tab list and cursor equal the globals of the
\* single-tenant server, and each browser_tabs call returned the same text
\* (or raised the same exception) on both, at the same step.
C39_SessionRefinesSingleTenant ==
    (single.seq /\ out.pc = "done" /\ out.op \in TabActions \cup {"open"}
        /\ out.sid \in Keys(sessions)) =>
       /\ SameTabs(out.sid)
       /\ out.op \in TabActions =>
             /\ single.out.pc = "done"
             /\ SessionText = single.out.result
             /\ out.raised = single.out.raised

\* C40: when the shutdown is over (the loop of main has ended and no task is
\* left for asyncio.run to cancel), the loop has come to the end of its list
\* (no cleanup_session raised out of it) and the dict is empty, so that no
\* session is left holding a browser, also when an eviction task was
\* scheduled or running at shutdown.
C40_ShutdownLeavesNothing ==
    (/\ ShutdownOver /\ queue = <<>>
     /\ \A p \in Tasks \cup {Reaper} : flow[p].pc \notin CsPcs) =>
        /\ flow[Main].pc = "stopped"
        /\ sessions = <<>>

====
